---- MODULE Spec2Model ----
(***************************************************************************)
(* Model of the sizing engine of nx_system_calc:                           *)
(*   - multi-site distribution (services/calculations/multi_site.py)       *)
(*   - server count, failover capacity search and apply_failover          *)
(*     (services/calculations/servers.py)                                  *)
(*   - NIC validation, licenses, storage, RAID and bitrate calculations    *)
(*     (bandwidth.py, licenses.py, storage.py, raid.py, bitrate.py)        *)
(*   - the bitrate loop of calculate_system (api/calculator.py)            *)
(*   - tier recommendation, site validation, required RAM and server       *)
(*     distribution (servers.py, multi_site.py)                            *)
(*   - webhook delivery and its retries (services/webhook.py)              *)
(* Every function is modelled as the code computes it.  Quantities the     *)
(* code holds as floats are held here as exact integers or as fractions    *)
(* num/den, so a comparison of two ratios is a cross-multiplication.       *)
(***************************************************************************)
EXTENDS Integers, Sequences, FiniteSets, TLC

VARIABLES
    \* ---- calculate_multi_site_deployment ----
    ms_pc,                  \* position in calculate_multi_site_deployment
    camera_groups,          \* the caller's list of camera groups
    max_devices_per_site,   \* argument
    max_servers_per_site,   \* argument
    server_config,          \* argument: the caller's server configuration dict
    sites_info,             \* result of calculate_sites_needed
    sites,                  \* the list of per-site results built so far
    ms_result,              \* the returned summary
    \* ---- calculate_server_count ----
    sc_pc,
    sc_args,
    sc_result,
    \* ---- calculate_failover_capacity ----
    fo_pc,
    fo_args,
    current_cameras,
    current_bitrate_mbps,
    iterations,             \* number of times the loop body has run
    fo_result,
    \* ---- one call of a pure calculation function ----
    call_pc,                \* the function about to be called, then done / raised
    call_args,
    call_result,
    \* ---- calculate_system (api/calculator.py), the bitrate loop ----
    cs_pc,
    cs_groups,              \* request.camera_groups
    cs_total_devices,
    cs_total_bitrate_kbps,  \* in hundredths of a Kbps
    cs_camera_bitrates,     \* one entry per camera: the bitrate of its group
    cs_bitrate_sources,     \* history: per group passed, how its bitrate was obtained
    \* ---- WebhookService (services/webhook.py) ----
    webhooks,               \* cls._webhooks: webhook id -> subscription
    deliveries,             \* cls._deliveries, in insertion order; the id is the position
    utcnow,                 \* the clock read by datetime.utcnow(), in seconds
    wh_call,                \* the arguments of the last deliver_webhook call
    wh_result,              \* what the last deliver_webhook call returned
    retry_pc,               \* position in retry_failed_deliveries
    retry_now,              \* its local "now"
    retry_pos,              \* number of records its iterator has passed
    retry_size,             \* size of cls._deliveries when its iterator was created
    retry_results,          \* its local "results"
    retry_of                \* history: per record, the record whose retry created it (0: none)

msVars == <<ms_pc, camera_groups, max_devices_per_site, max_servers_per_site, server_config,
            sites_info, sites, ms_result>>
scVars == <<sc_pc, sc_args, sc_result>>
foVars == <<fo_pc, fo_args, current_cameras, current_bitrate_mbps, iterations, fo_result>>
callVars == <<call_pc, call_args, call_result>>
csVars == <<cs_pc, cs_groups, cs_total_devices, cs_total_bitrate_kbps, cs_camera_bitrates,
            cs_bitrate_sources>>
whVars == <<webhooks, deliveries, utcnow, wh_call, wh_result, retry_pc, retry_now, retry_pos,
            retry_size, retry_results, retry_of>>
vars == <<msVars, scVars, foVars, callVars, csVars, whVars>>

(***************************************************************************)
(* Bounds of the model.                                                    *)
(***************************************************************************)
MaxGroups == 3              \* camera groups in one request
MaxCamerasPerGroup == 3     \* num_cameras of one group
MaxDevicesPerSite == 4      \* max_devices_per_site argument
MaxServersPerSite == 2      \* max_servers_per_site argument

(***************************************************************************)
(* Arithmetic helpers.                                                     *)
(***************************************************************************)
\* math.ceil(a / b) for integers a and b > 0
Ceil(a, b) == 0 - ((0 - a) \div b)

Max2(a, b) == IF a >= b THEN a ELSE b

Min2(a, b) == IF a <= b THEN a ELSE b

RECURSIVE SumSeq(_)
SumSeq(s) == IF s = <<>> THEN 0 ELSE Head(s) + SumSeq(Tail(s))

\* a missing dictionary entry (what dict.get falls back from)
NoValue == [none |-> TRUE]

(***************************************************************************)
(* servers.py: calculate_storage_throughput_limit and                      *)
(* calculate_server_count.  A bitrate in Mbps is the fraction              *)
(* br_num / br_den (br_den > 0); bandwidth_headroom is headroom_pct / 100. *)
(***************************************************************************)
\* storage_count = math.ceil(total_bitrate_mbps / storage_throughput_mbps);
\* the returned dict also holds utilization_percentage, whose division by
\* storage_count * storage_throughput_mbps raises when that product is 0.
calculate_storage_throughput_limit(br_num, br_den, storage_throughput_mbps) ==
    LET storage_count == Ceil(br_num, br_den * storage_throughput_mbps)
    IN  IF storage_count * storage_throughput_mbps = 0
        THEN [error |-> "ZeroDivisionError", storage_count |-> 0]
        ELSE [error |-> "none", storage_count |-> Max2(1, storage_count)]

\* cpu_info.get("max_cameras", default)
CpuMaxCameras(cpu_info, default) ==
    IF cpu_info = NoValue THEN default ELSE cpu_info.max_cameras

\* a variant whose comparisons are strict
LimitingFactor_Strict(servers_by_devices, servers_by_bandwidth, servers_by_storage) ==
    IF servers_by_devices > Max2(servers_by_bandwidth, servers_by_storage)
    THEN "device_count"
    ELSE IF servers_by_bandwidth > Max2(servers_by_devices, servers_by_storage)
    THEN "bandwidth"
    ELSE IF servers_by_storage > Max2(servers_by_devices, servers_by_bandwidth)
    THEN "storage_throughput"
    ELSE "multiple"

\* the if/elif chain that names the limiting factor
LimitingFactor(servers_by_devices, servers_by_bandwidth, servers_by_storage) ==
    IF servers_by_devices >= Max2(servers_by_bandwidth, servers_by_storage)
    THEN "device_count"
    ELSE IF servers_by_bandwidth >= Max2(servers_by_devices, servers_by_storage)
    THEN "bandwidth"
    ELSE IF servers_by_storage >= Max2(servers_by_devices, servers_by_bandwidth)
    THEN "storage_throughput"
    ELSE "multiple"

ServerCountError(e) ==
    [error |-> e, servers_needed |-> 0, limiting_factor |-> "",
     servers_by_devices |-> 0, servers_by_bandwidth |-> 0,
     devices_per_server |-> 0]

calculate_server_count(a) ==
    IF a.total_devices < 1 THEN ServerCountError("ValueError")
    ELSE IF a.br_num < 0 THEN ServerCountError("ValueError")
    ELSE
    LET cpu_max_cameras == CpuMaxCameras(a.cpu_info, a.max_devices_per_server)
        effective_max_devices == Min2(a.max_devices_per_server, cpu_max_cameras)
        servers_by_devices == Ceil(a.total_devices, effective_max_devices)
        \* effective_nic_capacity = nic_capacity * nic_count * (1 - headroom)
        servers_by_bandwidth ==
            Ceil(a.br_num * 100,
                 a.br_den * a.nic_capacity_mbps * a.nic_count * (100 - a.headroom_pct))
        storage_info ==
            calculate_storage_throughput_limit(a.br_num, a.br_den, a.storage_throughput_mbps)
        servers_by_storage == storage_info.storage_count
        servers_needed ==
            Max2(servers_by_devices, Max2(servers_by_bandwidth, servers_by_storage))
    IN  IF storage_info.error # "none" THEN ServerCountError(storage_info.error)
        ELSE [error |-> "none",
              servers_needed |-> servers_needed,
              limiting_factor |->
                  LimitingFactor(servers_by_devices, servers_by_bandwidth, servers_by_storage),
              servers_by_devices |-> servers_by_devices,
              servers_by_bandwidth |-> servers_by_bandwidth,
              devices_per_server |-> Ceil(a.total_devices, servers_needed)]

\* the keyword defaults of calculate_server_count
DefaultNicCapacityMbps == 1000
DefaultNicCount == 1
DefaultMaxDevicesPerServer == 256
DefaultHeadroomPct == 20
DefaultStorageThroughputMbps == 204

(***************************************************************************)
(* multi_site.py: calculate_sites_needed.                                  *)
(***************************************************************************)
\* a variant that fills the last site to max capacity too
RECURSIVE SitesNeededLoop_FillLast(_, _, _, _, _)
SitesNeededLoop_FillLast(i, sites_needed, max_per_site, remaining_devices, devices_per_site) ==
    IF i >= sites_needed THEN devices_per_site
    ELSE SitesNeededLoop_FillLast(i + 1, sites_needed, max_per_site,
                                  remaining_devices - max_per_site,
                                  Append(devices_per_site, max_per_site))

\* the loop "for i in range(sites_needed)" from iteration i on (i counts from 0)
RECURSIVE SitesNeededLoop(_, _, _, _, _)
SitesNeededLoop(i, sites_needed, max_per_site, remaining_devices, devices_per_site) ==
    IF i >= sites_needed THEN devices_per_site
    ELSE IF i = sites_needed - 1
    THEN SitesNeededLoop(i + 1, sites_needed, max_per_site, remaining_devices,
                         Append(devices_per_site, remaining_devices))
    ELSE SitesNeededLoop(i + 1, sites_needed, max_per_site,
                         remaining_devices - max_per_site,
                         Append(devices_per_site, max_per_site))

\* a variant that rounds the quotient down and adds one
SitesNeededCount_FloorPlusOne(total_devices, max_per_site) ==
    (total_devices \div max_per_site) + 1

\* sites_needed = math.ceil(total_devices / max_devices_per_site)
SitesNeededCount(total_devices, max_per_site) == Ceil(total_devices, max_per_site)

calculate_sites_needed(total_devices, max_per_site) ==
    IF total_devices < 1 \/ max_per_site < 1
    THEN [error |-> "ValueError", sites_needed |-> 0, devices_per_site |-> <<>>,
          total_devices |-> total_devices]
    ELSE LET sites_needed == SitesNeededCount(total_devices, max_per_site)
         IN  [error |-> "none",
              sites_needed |-> sites_needed,
              devices_per_site |->
                  SitesNeededLoop(0, sites_needed, max_per_site, total_devices, <<>>),
              total_devices |-> total_devices]

(***************************************************************************)
(* multi_site.py: calculate_multi_site_deployment.                         *)
(* A camera group is [num_cameras, bitrate_kbps]: a group with a manual    *)
(* per-camera bitrate and continuous recording.  The caller passes a list  *)
(* of distinct dict objects (api/calculator.py builds one per request      *)
(* group), so id(group) is modelled by the group's position in the list.   *)
(* The per-site storage figure is a float product that no claim reads and  *)
(* is not part of the site record here.                                    *)
(***************************************************************************)
id(gi) == gi

RECURSIVE SumAllocatedInGroups(_, _)
SumAllocatedInGroups(gs, gid) ==
    IF gs = <<>> THEN 0
    ELSE (IF Head(gs).original_group_id = gid THEN Head(gs).num_cameras ELSE 0)
         + SumAllocatedInGroups(Tail(gs), gid)

\* sum(g["num_cameras"] for s in sites for g in s["camera_groups"]
\*     if g["original_group_id"] == id(group))
RECURSIVE SumAllocated(_, _)
SumAllocated(ss, gid) ==
    IF ss = <<>> THEN 0
    ELSE SumAllocatedInGroups(Head(ss).camera_groups, gid) + SumAllocated(Tail(ss), gid)

\* a variant that ignores what the site already holds
DevicesForSite_IgnoreFilled(remaining_group_devices, site_devices, site_total_devices) ==
    Min2(remaining_group_devices, site_devices)

\* devices_for_site = min(remaining_group_devices, site_devices - site_total_devices)
DevicesForSite(remaining_group_devices, site_devices, site_total_devices) ==
    Min2(remaining_group_devices, site_devices - site_total_devices)

\* a variant in which site_group is the caller's dict itself
CopiedObject_SameObject(gi) == gi

\* group.copy(): the object the copy is, 0 for a new dict that is none of
\* the caller's
CopiedObject(gi) == 0

\* site_group = group.copy() with num_cameras and original_group_id set
SiteGroup(group, gi, devices_for_site) ==
    [num_cameras |-> devices_for_site,
     bitrate_kbps |-> group.bitrate_kbps,
     original_group_id |-> id(gi)]

\* the caller's dicts after the two assignments to site_group, which is the
\* object target
AfterSiteGroupWrites(caller_groups, target, site_group) ==
    IF target = 0 THEN caller_groups
    ELSE [caller_groups EXCEPT ![target] = site_group]

\* the loop "for group in camera_groups" of one site, from group gi on;
\* acc is [camera_groups, total_devices, caller_groups] (site_camera_groups,
\* site_total_devices and the contents of the caller's dicts)
RECURSIVE PartitionLoop(_, _, _, _, _)
PartitionLoop(gi, groups, done_sites, site_devices, acc) ==
    IF gi > Len(groups) THEN acc
    ELSE LET group == acc.caller_groups[gi]
             remaining_group_devices ==
                 group.num_cameras - SumAllocated(done_sites, id(gi))
             devices_for_site ==
                 DevicesForSite(remaining_group_devices, site_devices, acc.total_devices)
             site_group == SiteGroup(group, gi, devices_for_site)
         IN  IF remaining_group_devices <= 0
             THEN PartitionLoop(gi + 1, groups, done_sites, site_devices, acc)
             ELSE IF devices_for_site > 0
             THEN PartitionLoop(gi + 1, groups, done_sites, site_devices,
                      [camera_groups |-> Append(acc.camera_groups, site_group),
                       total_devices |-> acc.total_devices + devices_for_site,
                       caller_groups |->
                           AfterSiteGroupWrites(acc.caller_groups, CopiedObject(gi),
                                                site_group)])
             ELSE PartitionLoop(gi + 1, groups, done_sites, site_devices, acc)

\* site_bitrate_kbps = sum of bitrate * num_cameras over the site's groups
RECURSIVE SiteBitrateKbps(_)
SiteBitrateKbps(gs) ==
    IF gs = <<>> THEN 0
    ELSE Head(gs).bitrate_kbps * Head(gs).num_cameras + SiteBitrateKbps(Tail(gs))

\* the catalog entry of the default cpu_variant "core_i5"
CoreI5MaxCameras == 256

\* calculate_server_count(site_total_devices, site_bitrate_kbps / 1000,
\*                        server_config.get("nic_capacity_mbps", 1000),
\*                        server_config.get("nic_count", 1)) with the other defaults
SiteServerCount(site_total_devices, site_bitrate_kbps, config) ==
    calculate_server_count(
        [total_devices |-> site_total_devices,
         br_num |-> site_bitrate_kbps, br_den |-> 1000,
         nic_capacity_mbps |-> config.nic_capacity_mbps,
         nic_count |-> config.nic_count,
         max_devices_per_server |-> DefaultMaxDevicesPerServer,
         headroom_pct |-> DefaultHeadroomPct,
         storage_throughput_mbps |-> DefaultStorageThroughputMbps,
         cpu_info |-> [max_cameras |-> CoreI5MaxCameras]])

RECURSIVE SumNumCameras(_)
SumNumCameras(gs) ==
    IF gs = <<>> THEN 0 ELSE Head(gs).num_cameras + SumNumCameras(Tail(gs))

RECURSIVE SumSiteDevices(_)
SumSiteDevices(ss) ==
    IF ss = <<>> THEN 0 ELSE Head(ss).devices + SumSiteDevices(Tail(ss))

CameraGroupSet ==
    [num_cameras : 1..MaxCamerasPerGroup, bitrate_kbps : {4000, 120000}]

SeqsUpTo(S, n) == UNION {[1..k -> S] : k \in 0..n}

\* server_config as the request carries it
ServerConfigSet ==
    [nic_capacity_mbps : {DefaultNicCapacityMbps},
     nic_count : {DefaultNicCount},
     failover_type : {"none", "n_plus_1", "n_plus_2", "n_plus_3"}]

MSIdle ==
    /\ ms_pc = "idle"
    /\ camera_groups = <<>>
    /\ max_devices_per_site = 0
    /\ max_servers_per_site = 0
    /\ server_config = NoValue
    /\ sites_info = NoValue
    /\ sites = <<>>
    /\ ms_result = NoValue

\* the call is entered with its arguments bound
MSInit ==
    /\ ms_pc = "start"
    /\ camera_groups \in SeqsUpTo(CameraGroupSet, MaxGroups)
    /\ max_devices_per_site \in 0..MaxDevicesPerSite
    /\ max_servers_per_site \in 1..MaxServersPerSite
    /\ server_config \in ServerConfigSet
    /\ sites_info = NoValue
    /\ sites = <<>>
    /\ ms_result = NoValue

\* lines 151-160: total_devices, calculate_sites_needed (which may raise)
MSSitesNeeded ==
    /\ ms_pc = "start"
    /\ LET info == calculate_sites_needed(SumNumCameras(camera_groups),
                                          max_devices_per_site)
       IN  /\ sites_info' = info
           /\ ms_pc' = IF info.error = "none" THEN "loop" ELSE "raised"
    /\ UNCHANGED <<camera_groups, max_devices_per_site, max_servers_per_site, server_config,
                   sites, ms_result>>
    /\ UNCHANGED <<scVars, foVars, callVars, csVars, whVars>>

(***************************************************************************)
(* Claims about the multi-site distribution (checked under SpecMultiSite). *)
(***************************************************************************)
MSTotal == SumNumCameras(camera_groups)

\* arguments that no function of the pipeline rejects
MSValidInput ==
    /\ Len(camera_groups) >= 1
    /\ max_devices_per_site >= 1
    /\ server_config.failover_type \in {"none", "n_plus_1", "n_plus_2"}

C2_GreedyFill ==
    /\ (ms_pc \in {"loop", "done"} =>
            LET n == sites_info.sites_needed
                d == sites_info.devices_per_site
            IN  /\ n >= 1
                /\ n * max_devices_per_site >= MSTotal
                /\ (n - 1) * max_devices_per_site < MSTotal
                /\ Len(d) = n
                /\ \A i \in 1..(n - 1) : d[i] = max_devices_per_site
                /\ d[n] = MSTotal - (n - 1) * max_devices_per_site
                /\ 1 <= d[n] /\ d[n] <= max_devices_per_site)
    /\ (ms_pc = "loop" /\ Len(sites) = 0 =>
            LET r == calculate_sites_needed(3000, 2560)
            IN  r.sites_needed = 2 /\ r.devices_per_site = <<2560, 440>>)

\* several sites, the last one only partly filled
C2_Witness ==
    /\ ms_pc = "loop"
    /\ sites_info.sites_needed >= 3
    /\ sites_info.devices_per_site[sites_info.sites_needed] < max_devices_per_site

MaxTotalDevices == 5        \* total_devices argument
MaxBitrateNum == 6          \* numerator of total_bitrate_mbps
MaxNicCapacity == 3         \* nic_capacity_mbps argument
MaxNicCount == 2            \* nic_count argument
MaxDevicesPerServer == 2    \* max_devices_per_server argument
MaxStorageThroughput == 2   \* storage_throughput_mbps argument
MaxCpuCameras == 3          \* max_cameras of a catalog CPU variant

\* a catalog entry of cpu_variants, or nothing for an unknown variant
CpuInfoSet ==
    {NoValue} \cup [max_cameras : 1..MaxCpuCameras, ram_os_mb : {128, 1024}]

ServerCountArgs ==
    [total_devices : 0..MaxTotalDevices,
     br_num : (0 - 1)..MaxBitrateNum,
     br_den : {1, 3},
     nic_capacity_mbps : 1..MaxNicCapacity,
     nic_count : 1..MaxNicCount,
     max_devices_per_server : 1..MaxDevicesPerServer,
     headroom_pct : {0, 20},
     storage_throughput_mbps : 1..MaxStorageThroughput,
     cpu_info : {NoValue} \cup [max_cameras : 1..MaxCpuCameras, ram_os_mb : {1024}]]

SCIdle ==
    /\ sc_pc = "idle"
    /\ sc_args = NoValue
    /\ sc_result = NoValue

SCInit ==
    /\ sc_pc = "start"
    /\ sc_args \in ServerCountArgs
    /\ sc_result = NoValue

\* the whole call: a result dict, or an exception
SCCall ==
    /\ sc_pc = "start"
    /\ LET r == calculate_server_count(sc_args)
       IN  /\ sc_result' = r
           /\ sc_pc' = IF r.error = "none" THEN "done" ELSE "raised"
    /\ UNCHANGED sc_args
    /\ UNCHANGED <<msVars, foVars, callVars, csVars, whVars>>

(***************************************************************************)
(* Claims about calculate_server_count (checked under SpecServerCount).    *)
(***************************************************************************)
\* C4: calculate_server_count returns servers_needed >= 1 for every input it
\* accepts: total_devices >= 1 and total_bitrate_mbps >= 0, a total bitrate
\* of exactly 0 included; it never fails or returns 0 on such input.
C4_ServersAtLeastOne ==
    (sc_pc # "start" /\ sc_args.total_devices >= 1 /\ sc_args.br_num >= 0) =>
        (sc_pc = "done" /\ sc_result.servers_needed >= 1)

MaxCameraBitrate == 5       \* max_camera_bitrate_mbps argument
MaxRamGb == 3               \* ram_gb argument
MaxNicBitrate == 8          \* nic_bitrate_mbps argument

GbToMb == 1024
DefaultCpuMaxCameras == 256
DefaultRamOsMb == 1024
DefaultClientRamMb == 3072
max_storage_devices == 12

FracGE(x, y) == x[1] * y[2] >= y[1] * x[2]

FracEq(x, y) == x[1] * y[2] = y[1] * x[2]

FracMax(x, y) == IF FracGE(x, y) THEN x ELSE y

\* cpu_info.get("ram_os_mb", 1024)
CpuRamOsMb(cpu_info) ==
    IF cpu_info = NoValue THEN DefaultRamOsMb ELSE cpu_info.ram_os_mb

FoCpuMax(a) == CpuMaxCameras(a.cpu_info, DefaultCpuMaxCameras)

FoAvailableRamMb(a) == a.ram_gb * GbToMb

FoClientRam(a) == IF a.host_client THEN a.client_ram_mb ELSE 0

\* required_ram_mb for n cameras
RequiredRamMb(a, n) == CpuRamOsMb(a.cpu_info) + FoClientRam(a) + n * a.camera_ram_mb

check_ram(a, next_cameras) == FoAvailableRamMb(a) >= RequiredRamMb(a, next_cameras)

\* a variant that lets one camera past the CPU limit
check_cpu_OffByOne(a, next_cameras) == next_cameras <= FoCpuMax(a) + 1

check_cpu(a, next_cameras) == next_cameras <= FoCpuMax(a)

check_nic(a, next_bitrate_mbps) ==
    Ceil(next_bitrate_mbps, a.nic_bitrate_mbps) <= a.nic_count

check_hdd(a, next_bitrate_mbps) ==
    Ceil(next_bitrate_mbps, a.storage_throughput_mbps) <= max_storage_devices

AllChecks(a, next_cameras, next_bitrate_mbps) ==
    /\ check_ram(a, next_cameras)
    /\ check_cpu(a, next_cameras)
    /\ check_nic(a, next_bitrate_mbps)
    /\ check_hdd(a, next_bitrate_mbps)

\* a variant that tests the network ratio before the CPU ratio
determine_limiting_factor_NicFirst(cameras, cpu_max, bitrate, nic_capacity, ram_available, ram_os, ram_client, ram_per_camera) ==
    LET cpu_usage == IF cpu_max > 0 THEN <<cameras, cpu_max>> ELSE <<0, 1>>
        nic_usage == IF nic_capacity > 0 THEN <<bitrate, nic_capacity>> ELSE <<0, 1>>
        ram_usage == IF ram_available > 0
                     THEN <<ram_os + ram_client + cameras * ram_per_camera, ram_available>>
                     ELSE <<0, 1>>
        max_usage == FracMax(cpu_usage, FracMax(nic_usage, ram_usage))
    IN  IF FracEq(max_usage, nic_usage) THEN "Network bandwidth"
        ELSE IF FracEq(max_usage, cpu_usage) THEN "CPU (camera limit)"
        ELSE IF FracEq(max_usage, ram_usage) THEN "RAM"
        ELSE "Storage throughput"

determine_limiting_factor(cameras, cpu_max, bitrate, nic_capacity, ram_available, ram_os, ram_client, ram_per_camera) ==
    LET cpu_usage == IF cpu_max > 0 THEN <<cameras, cpu_max>> ELSE <<0, 1>>
        nic_usage == IF nic_capacity > 0 THEN <<bitrate, nic_capacity>> ELSE <<0, 1>>
        ram_usage == IF ram_available > 0
                     THEN <<ram_os + ram_client + cameras * ram_per_camera, ram_available>>
                     ELSE <<0, 1>>
        max_usage == FracMax(cpu_usage, FracMax(nic_usage, ram_usage))
    IN  IF FracEq(max_usage, cpu_usage) THEN "CPU (camera limit)"
        ELSE IF FracEq(max_usage, nic_usage) THEN "Network bandwidth"
        ELSE IF FracEq(max_usage, ram_usage) THEN "RAM"
        ELSE "Storage throughput"

FailoverArgs ==
    [max_camera_bitrate_mbps : (0 - 1)..MaxCameraBitrate,
     cpu_info : CpuInfoSet,
     ram_gb : 1..MaxRamGb,
     nic_bitrate_mbps : 1..MaxNicBitrate,
     nic_count : 1..MaxNicCount,
     storage_throughput_mbps : {1, DefaultStorageThroughputMbps},
     host_client : BOOLEAN,
     camera_ram_mb : {40, 512},
     client_ram_mb : {DefaultClientRamMb}]

FOIdle ==
    /\ fo_pc = "idle"
    /\ fo_args = NoValue
    /\ current_cameras = 0
    /\ current_bitrate_mbps = 0
    /\ iterations = 0
    /\ fo_result = NoValue

\* lines 286-301: the counters are initialised, the loop is about to start
FOInit ==
    /\ fo_pc = "loop"
    /\ fo_args \in FailoverArgs
    /\ current_cameras = 0
    /\ current_bitrate_mbps = 0
    /\ iterations = 0
    /\ fo_result = NoValue

\* a variant that admits the camera but forgets to add its bitrate
FOAdmit_BitrateNotAdded ==
    /\ fo_pc = "loop"
    /\ LET next_cameras == current_cameras + 1
           next_bitrate_mbps == current_bitrate_mbps + fo_args.max_camera_bitrate_mbps
       IN  /\ AllChecks(fo_args, next_cameras, next_bitrate_mbps)
           /\ current_cameras' = next_cameras
    /\ iterations' = iterations + 1
    /\ UNCHANGED <<fo_pc, fo_args, fo_result, current_bitrate_mbps>>
    /\ UNCHANGED <<msVars, scVars, callVars, csVars, whVars>>

\* lines 304-334: an iteration whose four checks pass admits the camera
FOAdmit ==
    /\ fo_pc = "loop"
    /\ LET next_cameras == current_cameras + 1
           next_bitrate_mbps == current_bitrate_mbps + fo_args.max_camera_bitrate_mbps
       IN  /\ AllChecks(fo_args, next_cameras, next_bitrate_mbps)
           /\ current_cameras' = next_cameras
           /\ current_bitrate_mbps' = next_bitrate_mbps
    /\ iterations' = iterations + 1
    /\ UNCHANGED <<fo_pc, fo_args, fo_result>>
    /\ UNCHANGED <<msVars, scVars, callVars, csVars, whVars>>

\* a variant that counts the camera before it tests the checks
FOBreak_CameraCounted ==
    /\ fo_pc = "loop"
    /\ LET next_cameras == current_cameras + 1
           next_bitrate_mbps == current_bitrate_mbps + fo_args.max_camera_bitrate_mbps
       IN  /\ ~AllChecks(fo_args, next_cameras, next_bitrate_mbps)
           /\ current_cameras' = next_cameras
           /\ current_bitrate_mbps' = next_bitrate_mbps
    /\ iterations' = iterations + 1
    /\ fo_pc' = "return"
    /\ UNCHANGED <<fo_args, fo_result>>
    /\ UNCHANGED <<msVars, scVars, callVars, csVars, whVars>>

\* lines 304-337: an iteration with a failing check leaves the loop
FOBreak ==
    /\ fo_pc = "loop"
    /\ LET next_cameras == current_cameras + 1
           next_bitrate_mbps == current_bitrate_mbps + fo_args.max_camera_bitrate_mbps
       IN  ~AllChecks(fo_args, next_cameras, next_bitrate_mbps)
    /\ iterations' = iterations + 1
    /\ fo_pc' = "return"
    /\ UNCHANGED <<fo_args, current_cameras, current_bitrate_mbps, fo_result>>
    /\ UNCHANGED <<msVars, scVars, callVars, csVars, whVars>>

\* lines 339-351: the returned dict
FOReturn ==
    /\ fo_pc = "return"
    /\ fo_result' =
           [max_cameras |-> current_cameras,
            max_bitrate_mbps |-> current_bitrate_mbps,
            ram_utilization_mb |-> RequiredRamMb(fo_args, current_cameras),
            limiting_factor |->
                determine_limiting_factor(
                    current_cameras, FoCpuMax(fo_args), current_bitrate_mbps,
                    fo_args.nic_bitrate_mbps * fo_args.nic_count,
                    FoAvailableRamMb(fo_args), CpuRamOsMb(fo_args.cpu_info),
                    FoClientRam(fo_args), fo_args.camera_ram_mb)]
    /\ fo_pc' = "done"
    /\ UNCHANGED <<fo_args, current_cameras, current_bitrate_mbps, iterations>>
    /\ UNCHANGED <<msVars, scVars, callVars, csVars, whVars>>

(***************************************************************************)
(* Claims about the failover capacity search (checked under SpecFailover   *)
(* and, where termination is claimed, SpecFailoverFair).                    *)
(***************************************************************************)
\* the CPU variant's camera limit, as the search reads it
FoClaimCpuMax ==
    IF fo_args.cpu_info = NoValue THEN 256 ELSE fo_args.cpu_info.max_cameras

FoClaimBitrate == fo_args.max_camera_bitrate_mbps

FoFeasible(lo) ==
    {n \in lo..FoClaimCpuMax : AllChecks(fo_args, n, n * FoClaimBitrate)}

FoChecksMonotone ==
    \A n \in 0..FoClaimCpuMax :
        /\ check_ram(fo_args, n + 1) => check_ram(fo_args, n)
        /\ check_cpu(fo_args, n + 1) => check_cpu(fo_args, n)
        /\ check_nic(fo_args, (n + 1) * FoClaimBitrate) => check_nic(fo_args, n * FoClaimBitrate)
        /\ check_hdd(fo_args, (n + 1) * FoClaimBitrate) => check_hdd(fo_args, n * FoClaimBitrate)

\* C7 as stated: for non-negative per-camera bitrate the four checks are
\* monotone in the camera count and the loop's result is the largest n in
\* [0, cpu_max] for which all four checks hold.
C7_Original ==
    (fo_pc = "done" /\ FoClaimBitrate >= 0) =>
        /\ FoChecksMonotone
        /\ fo_result.max_cameras \in FoFeasible(0)
        /\ \A m \in FoFeasible(0) : m <= fo_result.max_cameras

\* C7 (amended): for non-negative per-camera bitrate the four checks are
\* monotone in the camera count and the loop's result is the largest n in
\* [1, cpu_max] for which all four checks hold, and 0 when there is no such
\* n (also when the RAM check fails for 0 cameras already); the checks fail
\* for max_cameras + 1.
C7_ClosedForm ==
    (fo_pc = "done" /\ FoClaimBitrate >= 0) =>
        /\ FoChecksMonotone
        /\ IF FoFeasible(1) = {}
           THEN fo_result.max_cameras = 0
           ELSE /\ fo_result.max_cameras \in FoFeasible(1)
                /\ \A m \in FoFeasible(1) : m <= fo_result.max_cameras
        /\ ~AllChecks(fo_args, fo_result.max_cameras + 1,
                      (fo_result.max_cameras + 1) * FoClaimBitrate)

\* a search that admitted cameras and was stopped below the CPU cap
C7_Witness ==
    /\ fo_pc = "done"
    /\ FoClaimBitrate >= 1
    /\ fo_result.max_cameras >= 2
    /\ fo_result.max_cameras < FoClaimCpuMax

C8_Step ==
    /\ \/ (current_cameras' = current_cameras
            /\ current_bitrate_mbps' = current_bitrate_mbps)
       \/ (current_cameras' = current_cameras + 1
            /\ current_bitrate_mbps' = current_bitrate_mbps + FoClaimBitrate)
    /\ current_cameras' >= current_cameras
    /\ (fo_pc = "loop"
          /\ ~AllChecks(fo_args, current_cameras + 1, current_bitrate_mbps + FoClaimBitrate))
         => (fo_pc' # "loop" /\ current_cameras' = current_cameras
                /\ current_bitrate_mbps' = current_bitrate_mbps)
    /\ (fo_pc # "loop")
         => (fo_pc' # "loop" /\ current_cameras' = current_cameras
                /\ current_bitrate_mbps' = current_bitrate_mbps)

\* C8: current_cameras starts at 0, changes only by steps of +1 (the current
\* bitrate growing by exactly max_camera_bitrate_mbps with it), never
\* decreases, and the first iteration in which a check fails ends the search
\* with no further change to current_cameras or the current bitrate.
C8_MonotoneSearch ==
    /\ (current_cameras = 0 /\ current_bitrate_mbps = 0)
    /\ [][C8_Step]_vars

\* a finished search that had admitted cameras before a check failed
C8_Witness ==
    /\ fo_pc = "done"
    /\ current_cameras >= 2
    /\ current_bitrate_mbps = current_cameras * FoClaimBitrate
    /\ FoClaimBitrate >= 1

\* C9 as stated: the search terminates for every input, in at most
\* cpu_variant.max_cameras loop iterations.
C9_Original ==
    /\ <>(fo_pc = "done")
    /\ [](iterations <= FoClaimCpuMax)

\* C9 (amended): the search terminates for every input, in at most
\* cpu_variant.max_cameras + 1 loop iterations: at most max_cameras
\* iterations admit a camera and one more iteration fails a check.
C9_Terminates ==
    /\ <>(fo_pc = "done")
    /\ [](iterations <= FoClaimCpuMax + 1)
    /\ [](fo_pc # "loop" => iterations = current_cameras + 1)

\* a search that ran the full cpu_max + 1 iterations
C9_Witness ==
    /\ fo_pc = "done"
    /\ iterations = FoClaimCpuMax + 1
    /\ current_cameras = FoClaimCpuMax

\* C10: the reported limiting_factor is the dimension with the highest
\* utilisation ratio at the final state among cameras / cpu_max (CPU),
\* bitrate / (nic_bitrate * nic_count) (network) and ram_used / ram_available
\* (RAM); equal ratios are resolved in the order CPU, network, RAM.
C10_LimitingFactorHighestRatio ==
    fo_pc = "done" =>
        LET c == fo_result.max_cameras
            cpuN == c
            cpuD == FoClaimCpuMax
            nicN == fo_result.max_bitrate_mbps
            nicD == fo_args.nic_bitrate_mbps * fo_args.nic_count
            ramN == (IF fo_args.cpu_info = NoValue THEN 1024 ELSE fo_args.cpu_info.ram_os_mb)
                    + (IF fo_args.host_client THEN fo_args.client_ram_mb ELSE 0)
                    + c * fo_args.camera_ram_mb
            ramD == fo_args.ram_gb * 1024
            cpuTop == cpuN * nicD >= nicN * cpuD /\ cpuN * ramD >= ramN * cpuD
            nicTop == nicN * cpuD >= cpuN * nicD /\ nicN * ramD >= ramN * nicD
            ramTop == ramN * cpuD >= cpuN * ramD /\ ramN * nicD >= nicN * ramD
            lf == fo_result.limiting_factor
        IN  /\ nicN = c * FoClaimBitrate
            /\ lf \in {"CPU (camera limit)", "Network bandwidth", "RAM"}
            /\ (lf = "CPU (camera limit)" <=> cpuTop)
            /\ (lf = "Network bandwidth" <=> (~cpuTop /\ nicTop))
            /\ (lf = "RAM" <=> (~cpuTop /\ ~nicTop /\ ramTop))

\* the CPU and network ratios tie at the top and CPU is reported
C10_Witness ==
    /\ fo_pc = "done"
    /\ fo_result.max_cameras >= 1
    /\ fo_result.max_cameras * fo_args.nic_bitrate_mbps * fo_args.nic_count
           = fo_result.max_bitrate_mbps * FoClaimCpuMax
    /\ fo_result.limiting_factor = "CPU (camera limit)"

(***************************************************************************)
(* A single call of a calculation function: call_pc names the function,    *)
(* call_args holds its arguments, call_result what it returned or raised.  *)
(***************************************************************************)
CallIdle ==
    /\ call_pc = "idle"
    /\ call_args = NoValue
    /\ call_result = NoValue

CSIdle ==
    /\ cs_pc = "idle"
    /\ cs_groups = <<>>
    /\ cs_total_devices = 0
    /\ cs_total_bitrate_kbps = 0
    /\ cs_camera_bitrates = <<>>
    /\ cs_bitrate_sources = <<>>

WebhookIds == {"wh_1"}

WHIdle ==
    /\ webhooks = [wid \in WebhookIds |-> NoValue]
    /\ deliveries = <<>>
    /\ utcnow = 0
    /\ wh_call = NoValue
    /\ wh_result = NoValue
    /\ retry_pc = "idle"
    /\ retry_now = 0
    /\ retry_pos = 0
    /\ retry_size = 0
    /\ retry_results = <<>>
    /\ retry_of = <<>>

(***************************************************************************)
(* servers.py: apply_failover.  It runs the capacity search of              *)
(* calculate_failover_capacity (with that function's defaults for the       *)
(* arguments it does not pass) when it is given camera data.                *)
(***************************************************************************)
MaxServersNeeded == 3       \* servers_needed argument
MaxCamerasCount == 2        \* cameras_count argument

\* the while loop of calculate_failover_capacity, run to its break
RECURSIVE FailoverSearch(_, _, _)
FailoverSearch(a, cameras, bitrate_mbps) ==
    IF AllChecks(a, cameras + 1, bitrate_mbps + a.max_camera_bitrate_mbps)
    THEN FailoverSearch(a, cameras + 1, bitrate_mbps + a.max_camera_bitrate_mbps)
    ELSE [max_cameras |-> cameras, max_bitrate_mbps |-> bitrate_mbps]

\* the dict calculate_failover_capacity returns (the fields apply_failover reads
\* that are not float percentages)
calculate_failover_capacity(a) ==
    LET found == FailoverSearch(a, 0, 0)
    IN  [max_cameras |-> found.max_cameras,
         max_bitrate_mbps |-> found.max_bitrate_mbps,
         limiting_factor |->
             determine_limiting_factor(
                 found.max_cameras, FoCpuMax(a), found.max_bitrate_mbps,
                 a.nic_bitrate_mbps * a.nic_count,
                 FoAvailableRamMb(a), CpuRamOsMb(a.cpu_info),
                 FoClientRam(a), a.camera_ram_mb)]

DefaultCameraRamMb == 40

\* the arguments apply_failover passes on, the rest left at their defaults
FailoverCapacityArgs(a) ==
    [max_camera_bitrate_mbps |-> a.max_camera_bitrate_mbps,
     cpu_info |-> a.cpu_info,
     ram_gb |-> a.ram_gb,
     nic_bitrate_mbps |-> a.nic_bitrate_mbps,
     nic_count |-> a.nic_count,
     storage_throughput_mbps |-> DefaultStorageThroughputMbps,
     host_client |-> FALSE,
     camera_ram_mb |-> DefaultCameraRamMb,
     client_ram_mb |-> DefaultClientRamMb]

\* a variant whose N+2 multiplier is the N+1 multiplier
failover_multipliers_SameForBoth == [n_plus_1 |-> 2, n_plus_2 |-> 2]

\* failover_multipliers = {"n_plus_1": 2.0, "n_plus_2": 3.0}
failover_multipliers == [n_plus_1 |-> 2, n_plus_2 |-> 3]

\* int(x) of the float num / den: truncation toward zero
PyInt(num, den) ==
    IF num >= 0 THEN num \div den ELSE 0 - ((0 - num) \div den)

apply_failover(a) ==
    IF a.failover_type = "none"
    THEN [error |-> "none",
          primary_servers |-> a.servers_needed,
          backup_servers |-> 0,
          total_servers |-> a.servers_needed,
          failover_type |-> a.failover_type,
          failover_capacity |-> NoValue]
    ELSE
    LET failover_capacity ==
            IF a.cameras_count > 0 /\ a.max_camera_bitrate_mbps > 0
            THEN LET capacity_info == calculate_failover_capacity(FailoverCapacityArgs(a))
                     current_max_cameras == capacity_info.max_cameras
                 IN  [max_cameras_per_server |-> current_max_cameras,
                      failover_estimate |-> Max2(current_max_cameras - 1, a.cameras_count),
                      limiting_factor |-> capacity_info.limiting_factor]
            ELSE NoValue
    IN  IF a.failover_type \notin DOMAIN failover_multipliers
        THEN [error |-> "ValueError",
              primary_servers |-> 0, backup_servers |-> 0, total_servers |-> 0,
              failover_type |-> a.failover_type,
              failover_capacity |-> failover_capacity]
        ELSE LET multiplier == failover_multipliers[a.failover_type]
                 total_servers == PyInt(a.servers_needed * multiplier, 1)
             IN  [error |-> "none",
                  primary_servers |-> a.servers_needed,
                  backup_servers |-> total_servers - a.servers_needed,
                  total_servers |-> total_servers,
                  failover_type |-> a.failover_type,
                  failover_capacity |-> failover_capacity]

ApplyFailoverArgs ==
    [servers_needed : 0..MaxServersNeeded,
     failover_type : {"none", "n_plus_1", "n_plus_2", "n_plus_3"},
     cameras_count : 0..MaxCamerasCount,
     max_camera_bitrate_mbps : {0, 1, MaxCameraBitrate},
     cpu_info : {NoValue} \cup [max_cameras : 1..MaxCpuCameras, ram_os_mb : {1024}],
     ram_gb : 1..MaxRamGb,
     nic_bitrate_mbps : {1, MaxNicBitrate},
     nic_count : 1..MaxNicCount]

AFInit ==
    /\ call_pc = "apply_failover"
    /\ call_args \in ApplyFailoverArgs
    /\ call_result = NoValue

\* the whole call: a result dict, or an exception
AFCall ==
    /\ call_pc = "apply_failover"
    /\ LET r == apply_failover(call_args)
       IN  /\ call_result' = r
           /\ call_pc' = IF r.error = "none" THEN "done" ELSE "raised"
    /\ UNCHANGED call_args
    /\ UNCHANGED <<msVars, scVars, foVars, csVars, whVars>>

ApplyFailoverInit == MSIdle /\ SCIdle /\ FOIdle /\ AFInit /\ CSIdle /\ WHIdle
ApplyFailoverNext == AFCall
SpecApplyFailover == ApplyFailoverInit /\ [][ApplyFailoverNext]_vars

MaxPerServerMbps == 22      \* bitrate_per_server_mbps argument

DefaultMaxUtilizationPct == 80

\* a variant whose recommended-maximum test is not strict
NicMessages_AtLimit(bitrate_per_server_mbps, total_capacity, max_utilization_percentage) ==
    IF bitrate_per_server_mbps * 100 > 100 * total_capacity
    THEN [errors |-> <<"exceeds NIC capacity">>, warnings |-> <<>>]
    ELSE IF bitrate_per_server_mbps * 100 >= max_utilization_percentage * total_capacity
    THEN [errors |-> <<"exceeds recommended maximum">>, warnings |-> <<>>]
    ELSE IF bitrate_per_server_mbps * 100 * 10 > max_utilization_percentage * 9 * total_capacity
    THEN [errors |-> <<>>, warnings |-> <<"Approaching maximum NIC utilization">>]
    ELSE [errors |-> <<>>, warnings |-> <<>>]

\* the if/elif chain that fills errors and warnings
NicMessages(bitrate_per_server_mbps, total_capacity, max_utilization_percentage) ==
    IF bitrate_per_server_mbps * 100 > 100 * total_capacity
    THEN [errors |-> <<"exceeds NIC capacity">>, warnings |-> <<>>]
    ELSE IF bitrate_per_server_mbps * 100 > max_utilization_percentage * total_capacity
    THEN [errors |-> <<"exceeds recommended maximum">>, warnings |-> <<>>]
    ELSE IF bitrate_per_server_mbps * 100 * 10 > max_utilization_percentage * 9 * total_capacity
    THEN [errors |-> <<>>, warnings |-> <<"Approaching maximum NIC utilization">>]
    ELSE [errors |-> <<>>, warnings |-> <<>>]

validate_nic_capacity(a) ==
    LET total_capacity == a.nic_capacity_mbps * a.nic_count
        messages == NicMessages(a.bitrate_per_server_mbps, total_capacity,
                                a.max_utilization_percentage)
    IN  [error |-> "none",
         valid |-> Len(messages.errors) = 0,
         \* utilization as the fraction <<num, den>> of a percentage
         utilization |-> <<a.bitrate_per_server_mbps * 100, total_capacity>>,
         total_capacity_mbps |-> total_capacity,
         errors |-> messages.errors,
         warnings |-> messages.warnings]

ValidateNicArgs ==
    [bitrate_per_server_mbps : 0..MaxPerServerMbps,
     nic_capacity_mbps : {5, 10},
     nic_count : 1..MaxNicCount,
     max_utilization_percentage : {50, DefaultMaxUtilizationPct, 100, 110}]

NICInit ==
    /\ call_pc = "validate_nic_capacity"
    /\ call_args \in ValidateNicArgs
    /\ call_result = NoValue

NICCall ==
    /\ call_pc = "validate_nic_capacity"
    /\ call_result' = validate_nic_capacity(call_args)
    /\ call_pc' = "done"
    /\ UNCHANGED call_args
    /\ UNCHANGED <<msVars, scVars, foVars, csVars, whVars>>

ValidateNicInit == MSIdle /\ SCIdle /\ FOIdle /\ NICInit /\ CSIdle /\ WHIdle
ValidateNicNext == NICCall
SpecValidateNic == ValidateNicInit /\ [][ValidateNicNext]_vars

\* C12: validate_nic_capacity computes utilization = per_server_mbps /
\* (nic_capacity_mbps * nic_count) * 100 and produces exactly one outcome: the
\* error "exceeds capacity" if utilization > 100, else the error "exceeds
\* recommended maximum" if utilization > max_utilization_pct, else a warning if
\* utilization > 0.9 * max_utilization_pct, else no message; valid is true iff
\* no error was produced, so at the default 80% limit exactly 100% is invalid.
C12_NicClassification ==
    call_pc = "done" =>
        LET a == call_args
            r == call_result
            cap == a.nic_capacity_mbps * a.nic_count
            \* utilization compared with a percentage p given as pn / pd
            Above(pn, pd) == a.bitrate_per_server_mbps * 100 * pd > pn * cap
            m == a.max_utilization_percentage
        IN  /\ r.utilization[1] * cap = a.bitrate_per_server_mbps * 100 * r.utilization[2]
            /\ Len(r.errors) + Len(r.warnings) <= 1
            /\ (r.errors = <<"exceeds NIC capacity">>) <=> Above(100, 1)
            /\ (r.errors = <<"exceeds recommended maximum">>)
                   <=> (~Above(100, 1) /\ Above(m, 1))
            /\ (Len(r.warnings) = 1)
                   <=> (~Above(100, 1) /\ ~Above(m, 1) /\ Above(9 * m, 10))
            /\ (Len(r.errors) = 0 /\ Len(r.warnings) = 0)
                   <=> (~Above(100, 1) /\ ~Above(m, 1) /\ ~Above(9 * m, 10))
            /\ r.valid <=> (Len(r.errors) = 0)
            /\ (m = DefaultMaxUtilizationPct /\ a.bitrate_per_server_mbps = cap)
                   => ~r.valid

\* a load of exactly 100% of the capacity at the default limit: invalid, with
\* the recommended-maximum error and not the capacity error
C12_Witness ==
    /\ call_pc = "done"
    /\ call_args.max_utilization_percentage = DefaultMaxUtilizationPct
    /\ call_args.bitrate_per_server_mbps = call_args.nic_capacity_mbps * call_args.nic_count
    /\ ~call_result.valid
    /\ call_result.errors = <<"exceeds recommended maximum">>

(***************************************************************************)
(* licenses.py: calculate_licenses.                                        *)
(***************************************************************************)
MaxRecordedDevices == 3     \* num_recorded_devices argument
MaxLiveOnlyDevices == 3     \* num_live_only_devices argument
MaxIoModules == 3           \* num_io_modules argument

calculate_licenses(a) ==
    IF a.num_recorded_devices < 0 \/ a.num_live_only_devices < 0
    THEN [error |-> "ValueError", professional_licenses |-> 0,
          live_only_licenses |-> 0, io_module_licenses |-> 0, total_licenses |-> 0]
    ELSE LET professional_licenses == a.num_recorded_devices
             live_only_licenses == a.num_live_only_devices
             io_licenses == IF a.include_io_modules THEN a.num_io_modules ELSE 0
         IN  [error |-> "none",
              professional_licenses |-> professional_licenses,
              live_only_licenses |-> live_only_licenses,
              io_module_licenses |-> io_licenses,
              total_licenses |-> professional_licenses + live_only_licenses + io_licenses]

LicenseArgs ==
    [num_recorded_devices : (0 - 1)..MaxRecordedDevices,
     num_live_only_devices : (0 - 1)..MaxLiveOnlyDevices,
     include_io_modules : BOOLEAN,
     num_io_modules : (0 - 1)..MaxIoModules]

LICInit ==
    /\ call_pc = "calculate_licenses"
    /\ call_args \in LicenseArgs
    /\ call_result = NoValue

LICCall ==
    /\ call_pc = "calculate_licenses"
    /\ LET r == calculate_licenses(call_args)
       IN  /\ call_result' = r
           /\ call_pc' = IF r.error = "none" THEN "done" ELSE "raised"
    /\ UNCHANGED call_args
    /\ UNCHANGED <<msVars, scVars, foVars, csVars, whVars>>

LicensesInit == MSIdle /\ SCIdle /\ FOIdle /\ LICInit /\ CSIdle /\ WHIdle
LicensesNext == LICCall
SpecLicenses == LicensesInit /\ [][LicensesNext]_vars

\* C13: calculate_licenses returns one professional license per recorded
\* device, counts live-only devices and I/O modules separately, returns
\* total = professional + live_only + io, and fails with an error if any of
\* the three counts (recorded, live-only, I/O modules) is negative.
C13_LicenseCounts ==
    /\ call_pc = "done" =>
         /\ call_result.professional_licenses = call_args.num_recorded_devices
         /\ call_result.live_only_licenses = call_args.num_live_only_devices
         /\ call_result.total_licenses =
                call_result.professional_licenses + call_result.live_only_licenses
                + call_result.io_module_licenses
    /\ call_pc \in {"done", "raised"} =>
         ((call_pc = "raised") <=>
              (\/ call_args.num_recorded_devices < 0
               \/ call_args.num_live_only_devices < 0
               \/ call_args.num_io_modules < 0))

(***************************************************************************)
(* Exact fractions <<num, den>> (den > 0) kept in lowest terms, and        *)
(* round(x, 2): the nearest hundredth.  A value rounded to 2 decimals is   *)
(* held as an integer number of hundredths.  On an exact tie (x.xx5) the   *)
(* code rounds the binary double of x, which lies just above or just below *)
(* the tie: Round2Tie takes the side as an argument, and Round2 is used    *)
(* where the inputs drawn produce no tie.                                  *)
(***************************************************************************)
RECURSIVE GCD(_, _)
GCD(a, b) == IF b = 0 THEN (IF a < 0 THEN 0 - a ELSE a) ELSE GCD(b, a % b)

FracReduce(x) ==
    LET g == GCD(x[1], x[2])
    IN  IF g = 0 THEN x ELSE <<x[1] \div g, x[2] \div g>>

\* x * y for x, y in lowest terms, reduced before the products are formed
FracMul(x, y) ==
    LET g1 == GCD(x[1], y[2])
        g2 == GCD(y[1], x[2])
        h1 == IF g1 = 0 THEN 1 ELSE g1
        h2 == IF g2 = 0 THEN 1 ELSE g2
    IN  <<(x[1] \div h1) * (y[1] \div h2), (x[2] \div h2) * (y[2] \div h1)>>

\* the integer nearest to n / d (d > 0), ties to even
RoundHalfEven(n, d) ==
    LET q == n \div d
        r == n % d
    IN  IF 2 * r < d THEN q
        ELSE IF 2 * r > d THEN q + 1
        ELSE IF q % 2 = 0 THEN q ELSE q + 1

\* round(x, 2), in hundredths, for a double that lies above (tie_up) or
\* below an exact tie
Round2Tie(x, tie_up) ==
    LET z == FracReduce(x)
        whole == z[1] \div z[2]
        y == FracMul(FracReduce(<<z[1] % z[2], z[2]>>), <<100, 1>>)
        q == y[1] \div y[2]
        r == y[1] % y[2]
        hundredths == IF r < y[2] - r THEN q
                      ELSE IF r > y[2] - r THEN q + 1
                      ELSE IF tie_up THEN q + 1 ELSE q
    IN  100 * whole + hundredths

\* round(x, 2), in hundredths
Round2(x) ==
    LET y == FracMul(FracReduce(x), <<100, 1>>)
    IN  RoundHalfEven(y[1], y[2])

(***************************************************************************)
(* storage.py: calculate_daily_storage and calculate_storage.              *)
(* bitrate_kbps is the fraction br_num / br_den, recording_factor is       *)
(* rf_pct / 100, results are hundredths of a GB.                           *)
(***************************************************************************)
MaxRetentionDays == 3       \* retention_days argument
MaxNumCameras == 3          \* num_cameras argument
MaxScale == 3               \* factor k of the scaling relation

seconds_per_day == 86400
bits_to_gb == 8388608

\* a variant that accepts a recording factor of 0
RecordingFactorValid_ZeroAllowed(rf_pct) == 0 <= rf_pct /\ rf_pct <= 100

\* 0 < recording_factor <= 1.0
RecordingFactorValid(rf_pct) == 0 < rf_pct /\ rf_pct <= 100

calculate_daily_storage(br_num, br_den, rf_pct) ==
    IF br_num <= 0 THEN [error |-> "ValueError", value |-> 0]
    ELSE IF ~RecordingFactorValid(rf_pct) THEN [error |-> "ValueError", value |-> 0]
    ELSE LET daily_storage_gb ==
                 FracMul(FracMul(FracReduce(<<br_num, br_den>>), FracReduce(<<rf_pct, 100>>)),
                         FracReduce(<<seconds_per_day, bits_to_gb>>))
         IN  [error |-> "none", value |-> Round2(daily_storage_gb)]

\* a variant that leaves the camera count out of the product
total_storage_CamerasIgnored(daily_storage, retention_days, num_cameras) ==
    <<daily_storage * retention_days, 100>>

\* total_storage = daily_storage * retention_days * num_cameras
total_storage(daily_storage, retention_days, num_cameras) ==
    <<daily_storage * retention_days * num_cameras, 100>>

calculate_storage(a) ==
    IF a.retention_days < 1 THEN [error |-> "ValueError", value |-> 0]
    ELSE IF a.num_cameras < 1 THEN [error |-> "ValueError", value |-> 0]
    ELSE LET daily == calculate_daily_storage(a.br_num, a.br_den, a.rf_pct)
         IN  IF daily.error # "none" THEN daily
             ELSE [error |-> "none",
                   value |-> Round2(total_storage(daily.value, a.retention_days,
                                                  a.num_cameras))]

StorageArgs ==
    [br_num : {0 - 1, 0, 1, 3, 1000, 4000},
     br_den : {1, 10},
     rf_pct : {0 - 10, 0, 30, 100, 110},
     retention_days : 0..MaxRetentionDays,
     num_cameras : 0..MaxNumCameras]

\* calculate_daily_storage takes the bitrate and the recording factor only
DailyStorageArgs == {a \in StorageArgs : a.retention_days = 1 /\ a.num_cameras = 1}

STInit ==
    /\ \/ call_pc = "calculate_storage" /\ call_args \in StorageArgs
       \/ call_pc = "calculate_daily_storage" /\ call_args \in DailyStorageArgs
    /\ call_result = NoValue

STDailyCall ==
    /\ call_pc = "calculate_daily_storage"
    /\ LET r == calculate_daily_storage(call_args.br_num, call_args.br_den, call_args.rf_pct)
       IN  /\ call_result' = r
           /\ call_pc' = IF r.error = "none" THEN "daily_done" ELSE "daily_raised"
    /\ UNCHANGED call_args
    /\ UNCHANGED <<msVars, scVars, foVars, csVars, whVars>>

STCall ==
    /\ call_pc = "calculate_storage"
    /\ LET r == calculate_storage(call_args)
       IN  /\ call_result' = r
           /\ call_pc' = IF r.error = "none" THEN "done" ELSE "raised"
    /\ UNCHANGED call_args
    /\ UNCHANGED <<msVars, scVars, foVars, csVars, whVars>>

StorageInit == MSIdle /\ SCIdle /\ FOIdle /\ STInit /\ CSIdle /\ WHIdle
StorageNext == STDailyCall \/ STCall
SpecStorage == StorageInit /\ [][StorageNext]_vars

\* C14: calculate_storage / calculate_daily_storage fail with a ValueError and
\* return no value whenever bitrate_kbps <= 0, retention_days < 1,
\* camera_count < 1, or the duty cycle is outside (0, 1]; for every other
\* input they return a value.
C14_StorageValidation ==
    LET a == call_args
        bad_daily == a.br_num <= 0 \/ a.rf_pct <= 0 \/ a.rf_pct > 100
        bad_total == bad_daily \/ a.retention_days < 1 \/ a.num_cameras < 1
    IN  /\ call_pc \in {"daily_done", "daily_raised"} =>
             /\ (call_pc = "daily_raised") <=> bad_daily
             /\ (call_pc = "daily_raised") <=> (call_result.error = "ValueError")
             /\ call_pc = "daily_done" => call_result.value >= 0
        /\ call_pc \in {"done", "raised"} =>
             /\ (call_pc = "raised") <=> bad_total
             /\ (call_pc = "raised") <=> (call_result.error = "ValueError")
             /\ call_pc = "done" => call_result.value >= 0

\* a call rejected for its recording factor alone, the lower bound 0 excluded
C14_Witness ==
    /\ call_pc = "raised"
    /\ call_args.br_num > 0
    /\ call_args.retention_days >= 1
    /\ call_args.num_cameras >= 1
    /\ call_args.rf_pct = 0

StorageScaled(a, k_days, k_cameras) ==
    calculate_storage([a EXCEPT !.retention_days = a.retention_days * k_days,
                                !.num_cameras = a.num_cameras * k_cameras]).value

StorageMore(a, more_days, more_cameras) ==
    calculate_storage([a EXCEPT !.retention_days = a.retention_days + more_days,
                                !.num_cameras = a.num_cameras + more_cameras]).value

\* C15 as stated: k times the retention days (or the cameras) gives k times the
\* result within 0.01 GB, so one more retention day or one more camera
\* strictly increases the result.
C15_Original ==
    call_pc = "done" =>
        /\ \A k \in 1..MaxScale :
               /\ StorageScaled(call_args, k, 1) - k * call_result.value \in (0 - 1)..1
               /\ StorageScaled(call_args, 1, k) - k * call_result.value \in (0 - 1)..1
        /\ StorageMore(call_args, 1, 0) > call_result.value
        /\ StorageMore(call_args, 0, 1) > call_result.value

\* C15: total storage scales linearly: k times the retention days (or the
\* cameras) gives exactly k times the result; one more retention day or
\* camera never decreases the result, and strictly increases it exactly when
\* the rounded daily storage of one camera is at least 0.01 GB.
C15_LinearScaling ==
    call_pc = "done" =>
        LET daily == calculate_daily_storage(call_args.br_num, call_args.br_den,
                                             call_args.rf_pct).value
        IN  /\ \A k \in 1..MaxScale :
                   /\ StorageScaled(call_args, k, 1) = k * call_result.value
                   /\ StorageScaled(call_args, 1, k) = k * call_result.value
            /\ StorageMore(call_args, 1, 0) =
                   call_result.value + daily * call_args.num_cameras
            /\ StorageMore(call_args, 0, 1) =
                   call_result.value + daily * call_args.retention_days
            /\ (StorageMore(call_args, 1, 0) > call_result.value) <=> (daily >= 1)
            /\ (StorageMore(call_args, 0, 1) > call_result.value) <=> (daily >= 1)

\* a valid call whose daily storage rounds to 0.00 GB, and one where it does
\* not and several cameras are kept for several days
C15_Witness ==
    /\ call_pc = "done"
    /\ call_args.retention_days = 2
    /\ call_args.num_cameras = 3
    /\ call_args.br_num = 4000 /\ call_args.br_den = 1 /\ call_args.rf_pct = 100
    /\ call_result.value = 4120 * 6
    /\ calculate_storage([call_args EXCEPT !.br_num = 1, !.rf_pct = 30]).value = 0

(***************************************************************************)
(* raid.py: calculate_raid_overhead and calculate_usable_storage.          *)
(* A storage amount in GB is a fraction <<num, den>>; the percentages are  *)
(* integers; a returned amount is in hundredths of a GB.  ties tells, for   *)
(* each rounded quantity, on which side of an exact tie its double lies.   *)
(***************************************************************************)
RaidTies == [{"raw", "usable", "required"} -> BOOLEAN]

\* x / y for y # 0, the denominator kept positive
FracDiv(x, y) ==
    IF y[1] > 0 THEN FracMul(x, FracReduce(<<y[2], y[1]>>))
    ELSE FracMul(x, FracReduce(<<0 - y[2], 0 - y[1]>>))

RaidError(e) ==
    [error |-> e, raw_storage_gb |-> 0, usable_storage_gb |-> 0,
     required_storage_gb |-> 0, raw_storage_needed_gb |-> 0]

\* (raid_usable_percentage / 100) * (1 - filesystem_overhead_percentage / 100)
RaidMultiplier(raid_usable_percentage, filesystem_overhead_percentage) ==
    FracMul(FracReduce(<<raid_usable_percentage, 100>>),
            FracReduce(<<100 - filesystem_overhead_percentage, 100>>))

calculate_raid_overhead(raw_storage_gb, raid_usable_percentage, filesystem_overhead_percentage, ties) ==
    IF raw_storage_gb[1] <= 0 THEN RaidError("ValueError")
    ELSE IF ~(0 < raid_usable_percentage /\ raid_usable_percentage <= 100)
    THEN RaidError("ValueError")
    ELSE IF ~(0 <= filesystem_overhead_percentage /\ filesystem_overhead_percentage < 100)
    THEN RaidError("ValueError")
    ELSE LET storage_after_raid ==
                 FracMul(FracReduce(raw_storage_gb), FracReduce(<<raid_usable_percentage, 100>>))
             usable_storage ==
                 FracMul(storage_after_raid,
                         FracReduce(<<100 - filesystem_overhead_percentage, 100>>))
         IN  [error |-> "none",
              raw_storage_gb |-> Round2Tie(raw_storage_gb, ties["raw"]),
              usable_storage_gb |-> Round2Tie(usable_storage, ties["usable"]),
              required_storage_gb |-> 0,
              raw_storage_needed_gb |-> 0]

calculate_usable_storage(required_storage_gb, raid_usable_percentage, filesystem_overhead_percentage, ties) ==
    IF required_storage_gb[1] <= 0 THEN RaidError("ValueError")
    ELSE
    LET multiplier == RaidMultiplier(raid_usable_percentage, filesystem_overhead_percentage)
    IN  IF multiplier[1] = 0 THEN RaidError("ZeroDivisionError")
        ELSE
        LET raw_storage_needed == FracDiv(FracReduce(required_storage_gb), multiplier)
            breakdown == calculate_raid_overhead(raw_storage_needed, raid_usable_percentage,
                                                 filesystem_overhead_percentage, ties)
        IN  IF breakdown.error # "none" THEN breakdown
            ELSE [breakdown EXCEPT
                      !.required_storage_gb = Round2Tie(required_storage_gb, ties["required"]),
                      !.raw_storage_needed_gb = Round2Tie(raw_storage_needed, ties["raw"])]

RaidArgs ==
    [storage_num : {0 - 1000, 0, 2, 4, 5, 1234, 100000},
     storage_den : {1000},
     raid_usable_percentage : {0 - 50, 0, 50, 75, 100, 150},
     filesystem_overhead_percentage : {0 - 5, 0, 5, 100, 150}]

RAIDInit ==
    /\ call_pc \in {"calculate_raid_overhead", "calculate_usable_storage", "round_trip"}
    /\ call_args \in RaidArgs
    /\ call_result = NoValue

RAIDOverheadCall ==
    /\ call_pc = "calculate_raid_overhead"
    /\ \E ties \in RaidTies :
       LET r == calculate_raid_overhead(<<call_args.storage_num, call_args.storage_den>>,
                                        call_args.raid_usable_percentage,
                                        call_args.filesystem_overhead_percentage, ties)
       IN  /\ call_result' = r
           /\ call_pc' = IF r.error = "none" THEN "overhead_done" ELSE "overhead_raised"
    /\ UNCHANGED call_args
    /\ UNCHANGED <<msVars, scVars, foVars, csVars, whVars>>

RAIDUsableCall ==
    /\ call_pc = "calculate_usable_storage"
    /\ \E ties \in RaidTies :
       LET r == calculate_usable_storage(<<call_args.storage_num, call_args.storage_den>>,
                                         call_args.raid_usable_percentage,
                                         call_args.filesystem_overhead_percentage, ties)
       IN  /\ call_result' = r
           /\ call_pc' = IF r.error = "none" THEN "usable_done" ELSE "usable_raised"
    /\ UNCHANGED call_args
    /\ UNCHANGED <<msVars, scVars, foVars, csVars, whVars>>

\* the round trip, first leg: the raw storage needed for the required amount
RTUsable ==
    /\ call_pc = "round_trip"
    /\ \E ties \in RaidTies :
       LET r == calculate_usable_storage(<<call_args.storage_num, call_args.storage_den>>,
                                         call_args.raid_usable_percentage,
                                         call_args.filesystem_overhead_percentage, ties)
       IN  /\ call_result' = r
           /\ call_pc' = IF r.error = "none" THEN "round_trip_back" ELSE "round_trip_raised"
    /\ UNCHANGED call_args
    /\ UNCHANGED <<msVars, scVars, foVars, csVars, whVars>>

\* the round trip, second leg: the usable storage of the returned raw amount
RTOverhead ==
    /\ call_pc = "round_trip_back"
    /\ \E ties \in RaidTies :
       LET r == calculate_raid_overhead(<<call_result.raw_storage_needed_gb, 100>>,
                                        call_args.raid_usable_percentage,
                                        call_args.filesystem_overhead_percentage, ties)
       IN  /\ call_result' = r
           /\ call_pc' = IF r.error = "none" THEN "round_trip_done" ELSE "round_trip_raised"
    /\ UNCHANGED call_args
    /\ UNCHANGED <<msVars, scVars, foVars, csVars, whVars>>

RaidInit == MSIdle /\ SCIdle /\ FOIdle /\ RAIDInit /\ CSIdle /\ WHIdle
RaidNext == RAIDOverheadCall \/ RAIDUsableCall \/ RTUsable \/ RTOverhead
SpecRaid == RaidInit /\ [][RaidNext]_vars

RaidPercentagesValid ==
    /\ 0 < call_args.raid_usable_percentage
    /\ call_args.raid_usable_percentage <= 100
    /\ 0 <= call_args.filesystem_overhead_percentage
    /\ call_args.filesystem_overhead_percentage < 100

\* C16: RAID round trip: for any required usable storage X > 0, usable
\* fraction in (0, 1] and filesystem overhead in [0, 100), computing the raw
\* storage needed for X (calculate_usable_storage) and then the usable
\* storage of that raw amount (calculate_raid_overhead) returns X within
\* 0.01 GB.
C16_RaidRoundTrip ==
    (call_args # NoValue /\ call_args.storage_num > 0 /\ RaidPercentagesValid) =>
        /\ call_pc # "round_trip_raised"
        /\ call_pc = "round_trip_done" =>
               LET d == call_result.usable_storage_gb * call_args.storage_den
                        - 100 * call_args.storage_num
               IN  d <= call_args.storage_den /\ (0 - d) <= call_args.storage_den

\* C17: both RAID transforms fail with a ValueError whenever the RAID usable
\* percentage is outside (0, 100] or the filesystem overhead is outside
\* [0, 100), the boundary values usable percentage 0 and overhead 100
\* included.
C17_RaidValidation ==
    (call_args # NoValue /\ ~RaidPercentagesValid) =>
        /\ call_pc \notin {"overhead_done", "usable_done", "round_trip_back", "round_trip_done"}
        /\ call_pc \in {"overhead_raised", "usable_raised", "round_trip_raised"}
               => call_result.error = "ValueError"

(***************************************************************************)
(* bitrate.py: calculate_bitrate, calculate_bitrate_manual and             *)
(* estimate_bitrate_from_preset.  compression_factor and brand_factor are  *)
(* given in hundredths, quality_multiplier is a fraction; a returned       *)
(* bitrate is in hundredths of a Kbps.  resolution_area ** 0.7 is exact    *)
(* for an area that is a tenth power b^10 (it is b^7), and the areas drawn *)
(* are such powers.                                                        *)
(***************************************************************************)
MaxAreaRoot == 4            \* resolution_area is b^10 for b in 1..MaxAreaRoot

MinFps == 1
MaxFps == 100
DefaultAudioBitrateKbps == 64

RECURSIVE Pow(_, _)
Pow(b, n) == IF n = 0 THEN 1 ELSE b * Pow(b, n - 1)

FracAdd(x, y) == FracReduce(<<x[1] * y[2] + y[1] * x[2], x[2] * y[2]>>)

\* resolution_area ** 0.7
AreaPow07(resolution_area) ==
    LET b == CHOOSE r \in 1..(MaxAreaRoot + 1) : Pow(r, 10) = resolution_area
    IN  <<Pow(b, 7), 1>>

is_h264_h265(codec_id) == codec_id \in {"h264", "h265", "h264_plus"}

\* what "if audio_enabled: total_bitrate += audio_bitrate_kbps" adds
AudioKbps(audio_enabled, audio_bitrate_kbps) ==
    IF audio_enabled THEN audio_bitrate_kbps ELSE 0

\* round(x + whole, 2) for a whole number of Kbps: the hundredths of x are
\* rounded, the whole number carries over
Round2Plus(x, whole, tie_up) == Round2Tie(x, tie_up) + 100 * whole

\* the product of the fractions of s
RECURSIVE FracProd(_)
FracProd(s) == IF s = <<>> THEN <<1, 1>> ELSE FracMul(Head(s), FracProd(Tail(s)))

\* video_bitrate = result / 1024 at a frame rate, result by the formula of
\* the codec family; the factors of the product are taken in an order that
\* keeps every intermediate numerator and denominator within 32 bits
VideoBitrateAt(a, fps) ==
    LET q == FracReduce(a.quality_multiplier)
        cf == FracReduce(<<a.compression_factor, 100>>)
    IN  IF is_h264_h265(a.codec_id)
        THEN FracProd(<<q, <<9, 1000>>, <<fps, 1>>, <<1, 1024>>, cf,
                        FracReduce(<<a.brand_factor, 100>>), AreaPow07(a.resolution_area)>>)
        ELSE FracProd(<<q, <<12, 1>>, <<fps, 1>>, <<1, 1024>>, FracAdd(cf, <<1, 3>>),
                        FracReduce(<<a.resolution_area, 6666>>)>>)

\* a variant that counts the frame rate down from the maximum
VideoBitrate_FpsInverted(a) == VideoBitrateAt(a, MaxFps + 1 - a.fps)

VideoBitrate(a) == VideoBitrateAt(a, a.fps)

calculate_bitrate(a, tie_up) ==
    IF a.resolution_area <= 0 THEN [error |-> "ValueError", value |-> 0]
    ELSE IF ~(MinFps <= a.fps /\ a.fps <= MaxFps) THEN [error |-> "ValueError", value |-> 0]
    ELSE IF a.compression_factor <= 0 THEN [error |-> "ValueError", value |-> 0]
    ELSE IF a.quality_multiplier[1] <= 0 THEN [error |-> "ValueError", value |-> 0]
    ELSE IF a.brand_factor <= 0 THEN [error |-> "ValueError", value |-> 0]
    ELSE [error |-> "none",
          value |-> Round2Plus(VideoBitrate(a),
                               AudioKbps(a.audio_enabled, DefaultAudioBitrateKbps),
                               tie_up)]

\* bitrate_kbps is the fraction br_num / br_den
calculate_bitrate_manual(a, tie_up) ==
    IF a.br_num <= 0 THEN [error |-> "ValueError", value |-> 0]
    ELSE [error |-> "none",
          value |-> Round2Plus(FracReduce(<<a.br_num, a.br_den>>),
                               AudioKbps(a.audio_enabled, DefaultAudioBitrateKbps),
                               tie_up)]

\* the conversion of a legacy multiplier m (in hundredths) to the 0.1-1.0
\* range, as a fraction
NormalizeQuality(m) ==
    IF m > 100
    THEN FracAdd(<<55, 100>>, FracMul(FracReduce(<<m - 100, 100>>), <<225, 1000>>))
    ELSE IF m < 100
    THEN FracAdd(<<1, 10>>, FracMul(FracReduce(<<m - 60, 100>>), <<1125, 1000>>))
    ELSE <<1, 1>>

\* a is the group's preset data: the catalog area of resolution_id, and the
\* catalog compression factor and quality multiplier of codec_id and quality
estimate_bitrate_from_preset(a, tie_up) ==
    calculate_bitrate([resolution_area |-> a.resolution_area,
                       fps |-> a.fps,
                       compression_factor |-> a.compression_factor,
                       quality_multiplier |-> NormalizeQuality(a.catalog_quality_multiplier),
                       audio_enabled |-> a.audio_enabled,
                       codec_id |-> a.codec_id,
                       brand_factor |-> 100],
                      tie_up)

TenthPowers == {Pow(b, 10) : b \in 1..MaxAreaRoot}

BitrateArgs ==
    [resolution_area : {0} \cup TenthPowers,
     fps : 0..(MaxFps + 1),
     compression_factor : {0, 10, 20},
     quality_multiplier : {<<0, 1>>, <<1, 10>>, <<55, 100>>, <<1, 1>>, <<14, 10>>},
     audio_enabled : BOOLEAN,
     codec_id : {"h264", "mjpeg"},
     brand_factor : {100}]

ManualBitrateArgs ==
    [br_num : {0 - 1, 0, 1, 4000, 123456},
     br_den : {1, 1000},
     audio_enabled : BOOLEAN]

PresetArgs ==
    [resolution_area : TenthPowers,
     fps : {1, 15, 30},
     compression_factor : {10, 20},
     catalog_quality_multiplier : {60, 80, 100, 140, 200},
     audio_enabled : BOOLEAN,
     codec_id : {"h264", "mjpeg"}]

BRInit ==
    /\ \/ call_pc = "calculate_bitrate" /\ call_args \in BitrateArgs
       \/ call_pc = "calculate_bitrate_manual" /\ call_args \in ManualBitrateArgs
       \/ call_pc = "estimate_bitrate_from_preset" /\ call_args \in PresetArgs
    /\ call_result = NoValue

BRCall ==
    /\ call_pc = "calculate_bitrate"
    /\ \E tie_up \in BOOLEAN :
       LET r == calculate_bitrate(call_args, tie_up)
       IN  /\ call_result' = r
           /\ call_pc' = IF r.error = "none" THEN "done" ELSE "raised"
    /\ UNCHANGED call_args
    /\ UNCHANGED <<msVars, scVars, foVars, csVars, whVars>>

BRManualCall ==
    /\ call_pc = "calculate_bitrate_manual"
    /\ \E tie_up \in BOOLEAN :
       LET r == calculate_bitrate_manual(call_args, tie_up)
       IN  /\ call_result' = r
           /\ call_pc' = IF r.error = "none" THEN "manual_done" ELSE "manual_raised"
    /\ UNCHANGED call_args
    /\ UNCHANGED <<msVars, scVars, foVars, csVars, whVars>>

BRPresetCall ==
    /\ call_pc = "estimate_bitrate_from_preset"
    /\ \E tie_up \in BOOLEAN :
       LET r == estimate_bitrate_from_preset(call_args, tie_up)
       IN  /\ call_result' = r
           /\ call_pc' = IF r.error = "none" THEN "preset_done" ELSE "preset_raised"
    /\ UNCHANGED call_args
    /\ UNCHANGED <<msVars, scVars, foVars, csVars, whVars>>

BitrateInit == MSIdle /\ SCIdle /\ FOIdle /\ BRInit /\ CSIdle /\ WHIdle
BitrateNext == BRCall \/ BRManualCall \/ BRPresetCall
SpecBitrate == BitrateInit /\ [][BitrateNext]_vars

\* the next larger area drawn, or the area itself when it is the largest
NextArea(resolution_area) ==
    IF \E n \in TenthPowers : n > resolution_area
    THEN CHOOSE n \in TenthPowers :
             n > resolution_area /\ \A m \in TenthPowers : m > resolution_area => n <= m
    ELSE resolution_area

MoreThanAHundredth(x) ==
    LET z == FracReduce(x)
        y == FracMul(z, <<100, 1>>)
    IN  z[1] >= z[2] \/ y[1] > y[2]

MaxCsGroups == 2            \* camera groups in one request
MaxCsCameras == 2           \* num_cameras of one group

DefaultCodecId == "h264"
DefaultBrandFactor == 100

CsGroupSet ==
    [num_cameras : 1..MaxCsCameras,
     bitrate_kbps : {0, 400000},
     resolution_id : {"none", "1mp"},
     catalog_area : {Pow(4, 10)},
     resolution_area : {0, Pow(2, 10)},
     fps : {30},
     codec_id : {"h264"},
     compression_factor : {10},
     catalog_quality_multiplier : {60, 100, 140},
     audio_enabled : BOOLEAN]

\* lines 61-62: bitrate = group.bitrate_kbps
ManualBitrate(group) == group.bitrate_kbps

\* lines 61-83: which branch obtains the group's bitrate
BitrateBranch(group) ==
    IF group.bitrate_kbps # 0 THEN "manual"
    ELSE IF group.resolution_id # "none" THEN "preset"
    ELSE IF group.resolution_area # 0 THEN "area"
    ELSE "neither"

\* line 74: quality_mult = codec["quality_multipliers"].get(group.quality, 1.0)
AreaQualityMultiplier(group) ==
    FracReduce(<<group.catalog_quality_multiplier, 100>>)

\* the quality multiplier that enters the formula of calculate_bitrate for
\* a group of the given branch
QualityMultiplierUsed(group, branch) ==
    IF branch = "preset" THEN NormalizeQuality(group.catalog_quality_multiplier)
    ELSE AreaQualityMultiplier(group)

\* lines 61-83: the bitrate of one group (hundredths of a Kbps) or the
\* ValueError raised
GroupBitrate(group, tie_up) ==
    LET branch == BitrateBranch(group)
    IN  IF branch = "manual"
        THEN [error |-> "none", value |-> ManualBitrate(group)]
        ELSE IF branch = "preset"
        THEN estimate_bitrate_from_preset(
                 [resolution_area |-> group.catalog_area,
                  fps |-> group.fps,
                  compression_factor |-> group.compression_factor,
                  catalog_quality_multiplier |-> group.catalog_quality_multiplier,
                  audio_enabled |-> group.audio_enabled,
                  codec_id |-> group.codec_id],
                 tie_up)
        ELSE IF branch = "area"
        THEN calculate_bitrate(
                 [resolution_area |-> group.resolution_area,
                  fps |-> group.fps,
                  compression_factor |-> group.compression_factor,
                  quality_multiplier |-> AreaQualityMultiplier(group),
                  audio_enabled |-> group.audio_enabled,
                  codec_id |-> DefaultCodecId,
                  brand_factor |-> DefaultBrandFactor],
                 tie_up)
        ELSE [error |-> "ValueError", value |-> 0]

\* [bitrate] * num_cameras
Repeat(x, n) == [i \in 1..n |-> x]

\* the request is validated (schemas/calculator.py) and the totals are reset
CSInit ==
    /\ cs_pc = "bitrate_loop"
    /\ cs_groups \in SeqsUpTo(CsGroupSet, MaxCsGroups)
    /\ Len(cs_groups) >= 1
    /\ cs_total_devices = 0
    /\ cs_total_bitrate_kbps = 0
    /\ cs_camera_bitrates = <<>>
    /\ cs_bitrate_sources = <<>>

\* lines 57-88: one iteration of "for group in request.camera_groups"
CSGroupIteration ==
    /\ cs_pc = "bitrate_loop"
    /\ Len(cs_bitrate_sources) < Len(cs_groups)
    /\ LET group == cs_groups[Len(cs_bitrate_sources) + 1]
           branch == BitrateBranch(group)
       IN  /\ cs_total_devices' = cs_total_devices + group.num_cameras
           /\ \E tie_up \in BOOLEAN :
              LET bitrate == GroupBitrate(group, tie_up)
              IN  IF bitrate.error # "none"
                  THEN /\ cs_pc' = "raised"
                       /\ UNCHANGED <<cs_total_bitrate_kbps, cs_camera_bitrates,
                                      cs_bitrate_sources>>
                  ELSE /\ cs_total_bitrate_kbps' =
                              cs_total_bitrate_kbps + bitrate.value * group.num_cameras
                       /\ cs_camera_bitrates' =
                              cs_camera_bitrates \o Repeat(bitrate.value, group.num_cameras)
                       /\ cs_bitrate_sources' =
                              Append(cs_bitrate_sources,
                                     [branch |-> branch,
                                      bitrate |-> bitrate.value,
                                      quality_multiplier |->
                                          IF branch = "manual" THEN NoValue
                                          ELSE QualityMultiplierUsed(group, branch)])
                       /\ UNCHANGED cs_pc
    /\ UNCHANGED cs_groups
    /\ UNCHANGED <<msVars, scVars, foVars, callVars, whVars>>

\* the loop is left with the totals the later stages are sized from
CSBitratesDone ==
    /\ cs_pc = "bitrate_loop"
    /\ Len(cs_bitrate_sources) = Len(cs_groups)
    /\ cs_pc' = "bitrates_done"
    /\ UNCHANGED <<cs_groups, cs_total_devices, cs_total_bitrate_kbps, cs_camera_bitrates,
                   cs_bitrate_sources>>
    /\ UNCHANGED <<msVars, scVars, foVars, callVars, whVars>>

CalcSystemInit == MSIdle /\ SCIdle /\ FOIdle /\ CallIdle /\ CSInit /\ WHIdle
CalcSystemNext == CSGroupIteration \/ CSBitratesDone
SpecCalcSystem == CalcSystemInit /\ [][CalcSystemNext]_vars

\* C19: whenever a camera group supplies a manual bitrate, the per-camera
\* bitrate used for sizing is the manual value plus the 64 kbps audio
\* constant when audio is enabled (and the manual value alone otherwise), and
\* the formula is not evaluated for that group.
C19_ManualOverride ==
    \A i \in 1..Len(cs_bitrate_sources) :
        cs_groups[i].bitrate_kbps # 0 =>
            /\ cs_bitrate_sources[i].branch = "manual"
            /\ cs_bitrate_sources[i].bitrate =
                   cs_groups[i].bitrate_kbps
                       + (IF cs_groups[i].audio_enabled
                          THEN 100 * DefaultAudioBitrateKbps ELSE 0)

\* C20: the quality multiplier that enters the bitrate formula for a group is
\* the converted catalog multiplier (m > 1.0 to 0.55 + (m - 1.0) * 0.225,
\* m < 1.0 to 0.1 + (m - 0.6) * 1.125, m = 1.0 unchanged) and satisfies
\* 0 < q <= 1.0, whether the group gives its resolution by catalog id or by
\* explicit pixel area.
C20_QualityNormalized ==
    \A i \in 1..Len(cs_bitrate_sources) :
        cs_bitrate_sources[i].branch # "manual" =>
            LET q == cs_bitrate_sources[i].quality_multiplier
            IN  /\ q = NormalizeQuality(cs_groups[i].catalog_quality_multiplier)
                /\ 0 < q[1]
                /\ q[1] <= q[2]

(***************************************************************************)
(* servers.py: recommend_server_tier.  The tier list is the catalog's      *)
(* server_tiers, a tier's id is its position in the list, and the fields   *)
(* of a tier that the result only copies are held as one "display" field.  *)
(* bitrate_per_server_mbps is a whole number of Mbps.                      *)
(***************************************************************************)
MaxTiers == 3               \* tiers in the catalog
MaxTierDevices == 3         \* max_devices of a tier
MaxTierBitrateMbps == 2     \* max_bitrate_mbps of a tier

TierSet == [max_devices : 1..MaxTierDevices, max_bitrate_mbps : 1..MaxTierBitrateMbps]

\* the tier accommodates the load
TierFits(tier, devices_per_server, bitrate_per_server_mbps) ==
    /\ devices_per_server <= tier.max_devices
    /\ bitrate_per_server_mbps <= tier.max_bitrate_mbps

\* the "for tier in tiers" loop from position i: the position of the first
\* tier that fits, 0 for None
RECURSIVE FirstFittingTier(_, _, _, _)
FirstFittingTier(tiers, i, devices_per_server, bitrate_per_server_mbps) ==
    IF i > Len(tiers) THEN 0
    ELSE IF TierFits(tiers[i], devices_per_server, bitrate_per_server_mbps) THEN i
    ELSE FirstFittingTier(tiers, i + 1, devices_per_server, bitrate_per_server_mbps)

recommend_server_tier(a) ==
    LET found == FirstFittingTier(a.tiers, 1, a.devices_per_server,
                                  a.bitrate_per_server_mbps)
        tier_id == IF found = 0 THEN Len(a.tiers) ELSE found
        recommended_tier == a.tiers[tier_id]
    IN  [error |-> "none",
         recommended_tier |-> recommended_tier,
         tier_id |-> tier_id,
         tier_name |-> tier_id,
         cpu |-> tier_id,
         ram_gb |-> tier_id,
         storage_type |-> tier_id,
         recommended_raid |-> tier_id,
         network |-> tier_id,
         use_case |-> tier_id]

RecommendTierArgs ==
    [tiers : {t \in SeqsUpTo(TierSet, MaxTiers) : Len(t) >= 1},
     devices_per_server : 0..(MaxTierDevices + 1),
     bitrate_per_server_mbps : 0..(MaxTierBitrateMbps + 1)]

RTInit ==
    /\ call_pc = "recommend_server_tier"
    /\ call_args \in RecommendTierArgs
    /\ call_result = NoValue

RTCall ==
    /\ call_pc = "recommend_server_tier"
    /\ call_result' = recommend_server_tier(call_args)
    /\ call_pc' = "done"
    /\ UNCHANGED call_args
    /\ UNCHANGED <<msVars, scVars, foVars, csVars, whVars>>

RecommendTierInit == MSIdle /\ SCIdle /\ FOIdle /\ RTInit /\ CSIdle /\ WHIdle
RecommendTierNext == RTCall
SpecRecommendTier == RecommendTierInit /\ [][RecommendTierNext]_vars

\* some tier of the list accommodates the load of the call
SomeTierFits ==
    \E i \in 1..Len(call_args.tiers) :
        TierFits(call_args.tiers[i], call_args.devices_per_server,
                 call_args.bitrate_per_server_mbps)

\* C21: recommend_server_tier returns the first tier of the list, in list
\* order, with devices_per_server <= max_devices and bitrate_per_server <=
\* max_bitrate_mbps; when no tier accommodates the load it returns the last
\* tier of the list and attaches a warning to the result.
C21_TierRecommendation ==
    call_pc = "done" =>
        LET a == call_args
            r == call_result
        IN  /\ SomeTierFits =>
                /\ TierFits(a.tiers[r.tier_id], a.devices_per_server,
                            a.bitrate_per_server_mbps)
                /\ \A j \in 1..(r.tier_id - 1) :
                       ~TierFits(a.tiers[j], a.devices_per_server,
                                 a.bitrate_per_server_mbps)
            /\ ~SomeTierFits =>
                /\ r.tier_id = Len(a.tiers)
                /\ "warning" \in DOMAIN r

(***************************************************************************)
(* multi_site.py: validate_site_configuration, and servers.py:             *)
(* validate_site_constraints.  A message is held as the name of the check  *)
(* that recorded it.  max * 0.9 and max * 0.8 are doubles that are not     *)
(* below the exact products, and equal to them when these are whole        *)
(* numbers, so "n > max * 0.9" is 10 * n > 9 * max for an integer n.       *)
(* utilization_percent is modelled by the division that computes it.       *)
(***************************************************************************)
MaxValDevices == 21         \* devices_per_site argument
MaxValServers == 11         \* servers_per_site argument

\* devices_per_site > max_devices_per_site * 0.9
DevicesApproachingLimit(devices, max_devices) == 10 * devices > 9 * max_devices

\* servers_per_site > max_servers_per_site * 0.8
ServersApproachingLimit(servers, max_servers) == 10 * servers > 8 * max_servers

\* the list of the names whose condition holds, in the order given
RECURSIVE Recorded(_)
Recorded(checks) ==
    IF checks = <<>> THEN <<>>
    ELSE (IF Head(checks)[2] THEN <<Head(checks)[1]>> ELSE <<>>) \o Recorded(Tail(checks))

validate_site_configuration(a) ==
    LET errors ==
            Recorded(<< <<"devices", a.devices_per_site > a.max_devices_per_site>>,
                        <<"servers", a.servers_per_site > a.max_servers_per_site>>,
                        <<"capacity", a.devices_per_site
                                          > a.servers_per_site * a.max_devices_per_server>> >>)
        warnings ==
            Recorded(<< <<"devices", DevicesApproachingLimit(a.devices_per_site,
                                                             a.max_devices_per_site)>>,
                        <<"servers", ServersApproachingLimit(a.servers_per_site,
                                                             a.max_servers_per_site)>> >>)
    IN  IF a.max_devices_per_site = 0
        THEN [error |-> "ZeroDivisionError"]
        ELSE [error |-> "none",
              is_valid |-> Len(errors) = 0,
              errors |-> errors,
              warnings |-> warnings,
              devices_per_site |-> a.devices_per_site,
              servers_per_site |-> a.servers_per_site]

\* a.devices_per_site is total_devices and a.servers_per_site is servers_needed
validate_site_constraints(a) ==
    LET errors ==
            Recorded(<< <<"devices", a.devices_per_site > a.max_devices_per_site>>,
                        <<"servers", a.servers_per_site > a.max_servers_per_site>> >>)
        warnings ==
            Recorded(<< <<"devices", DevicesApproachingLimit(a.devices_per_site,
                                                             a.max_devices_per_site)>>,
                        <<"servers", ServersApproachingLimit(a.servers_per_site,
                                                             a.max_servers_per_site)>> >>)
    IN  [error |-> "none",
         valid |-> Len(errors) = 0,
         errors |-> errors,
         warnings |-> warnings]

ValidateSiteArgs ==
    [devices_per_site : 0..MaxValDevices,
     servers_per_site : 0..MaxValServers,
     max_devices_per_site : {0, 10, 20},
     max_servers_per_site : {5, 10},
     max_devices_per_server : {2, 256}]

VSInit ==
    /\ call_pc \in {"validate_site_configuration", "validate_site_constraints"}
    /\ call_args \in ValidateSiteArgs
    /\ call_result = NoValue

VSConfigurationCall ==
    /\ call_pc = "validate_site_configuration"
    /\ LET r == validate_site_configuration(call_args)
       IN  /\ call_result' = r
           /\ call_pc' = IF r.error = "none" THEN "done" ELSE "raised"
    /\ UNCHANGED call_args
    /\ UNCHANGED <<msVars, scVars, foVars, csVars, whVars>>

VSConstraintsCall ==
    /\ call_pc = "validate_site_constraints"
    /\ call_result' = validate_site_constraints(call_args)
    /\ call_pc' = "constraints_done"
    /\ UNCHANGED call_args
    /\ UNCHANGED <<msVars, scVars, foVars, csVars, whVars>>

ValidateSiteInit == MSIdle /\ SCIdle /\ FOIdle /\ VSInit /\ CSIdle /\ WHIdle
ValidateSiteNext == VSConfigurationCall \/ VSConstraintsCall
SpecValidateSite == ValidateSiteInit /\ [][ValidateSiteNext]_vars

InSeq(x, s) == \E i \in 1..Len(s) : s[i] = x

\* C22: validate_site_configuration records an error and is_valid is false
\* when the site's devices exceed max_devices_per_site or its servers exceed
\* max_servers_per_site; a warning is recorded whenever the devices are at or
\* above 90% of max_devices_per_site and whenever the servers are at or above
\* 80% of max_servers_per_site, exactly 90% and exactly 80% included.
C22_SiteValidation ==
    call_pc = "done" =>
        LET a == call_args
            r == call_result
        IN  /\ a.devices_per_site > a.max_devices_per_site =>
                   ~r.is_valid /\ InSeq("devices", r.errors)
            /\ a.servers_per_site > a.max_servers_per_site =>
                   ~r.is_valid /\ InSeq("servers", r.errors)
            /\ 10 * a.devices_per_site >= 9 * a.max_devices_per_site =>
                   InSeq("devices", r.warnings)
            /\ 10 * a.servers_per_site >= 8 * a.max_servers_per_site =>
                   InSeq("servers", r.warnings)

(***************************************************************************)
(* Catalog lookups (checked under SpecServerCount).                        *)
(***************************************************************************)
\* C23: a calculation that references a CPU variant absent from the catalog
\* fails with an error and no default is substituted: calculate_server_count
\* called with an unknown cpu_variant raises instead of returning a result.
C23_NoDefaultSubstitution ==
    (sc_pc \in {"done", "raised"} /\ sc_args.cpu_info = NoValue) => sc_pc = "raised"

(***************************************************************************)
(* multi_site.py: calculate_multi_site_deployment, the per-site pipeline   *)
(* (partition, bitrate, servers, failover, validation) and the summary.    *)
(***************************************************************************)
SiteMaxDevicesPerServer == 256

\* apply_failover(servers_needed, server_config.get("failover_type", "none"))
\* with the other defaults
SiteFailover(servers_needed, config) ==
    apply_failover([servers_needed |-> servers_needed,
                    failover_type |-> config.failover_type,
                    cameras_count |-> 0,
                    max_camera_bitrate_mbps |-> 0,
                    cpu_info |-> [max_cameras |-> CoreI5MaxCameras, ram_os_mb |-> DefaultRamOsMb],
                    ram_gb |-> 8,
                    nic_bitrate_mbps |-> 600,
                    nic_count |-> 1])

\* validate_site_configuration(site_total_devices, total_servers,
\*                             max_devices_per_site, max_servers_per_site)
SiteValidation(site_total_devices, total_servers, max_devices, max_servers) ==
    validate_site_configuration([devices_per_site |-> site_total_devices,
                                 servers_per_site |-> total_servers,
                                 max_devices_per_site |-> max_devices,
                                 max_servers_per_site |-> max_servers,
                                 max_devices_per_server |-> SiteMaxDevicesPerServer])

\* lines 162-286: one iteration of "for site_idx in range(sites_needed)"
MSSiteIteration ==
    /\ ms_pc = "loop"
    /\ Len(sites) < sites_info.sites_needed
    /\ LET site_idx == Len(sites)
           site_devices == sites_info.devices_per_site[site_idx + 1]
           part == PartitionLoop(1, camera_groups, sites, site_devices,
                                 [camera_groups |-> <<>>, total_devices |-> 0,
                                  caller_groups |-> camera_groups])
           site_bitrate_kbps == SiteBitrateKbps(part.camera_groups)
           server_result == SiteServerCount(part.total_devices, site_bitrate_kbps,
                                            server_config)
           failover_result == SiteFailover(server_result.servers_needed, server_config)
           validation == SiteValidation(part.total_devices, failover_result.total_servers,
                                        max_devices_per_site, max_servers_per_site)
       IN  /\ camera_groups' = part.caller_groups
           /\ IF server_result.error # "none"
              THEN /\ ms_pc' = "raised"
                   /\ UNCHANGED sites
              ELSE IF failover_result.error # "none"
              THEN /\ ms_pc' = "raised"
                   /\ UNCHANGED sites
              ELSE IF validation.error # "none"
              THEN /\ ms_pc' = "raised"
                   /\ UNCHANGED sites
              ELSE /\ sites' = Append(sites,
                           [site_id |-> site_idx + 1,
                            devices |-> part.total_devices,
                            camera_groups |-> part.camera_groups,
                            bitrate_kbps |-> site_bitrate_kbps,
                            servers_needed |-> server_result.servers_needed,
                            servers_with_failover |-> failover_result.total_servers,
                            validation |-> validation])
                   /\ UNCHANGED ms_pc
    /\ UNCHANGED <<max_devices_per_site, max_servers_per_site, server_config, sites_info,
                   ms_result>>
    /\ UNCHANGED <<scVars, foVars, callVars, csVars, whVars>>

\* sum(site["servers_with_failover"] for site in sites)
RECURSIVE SumServersWithFailover(_)
SumServersWithFailover(ss) ==
    IF ss = <<>> THEN 0
    ELSE Head(ss).servers_with_failover + SumServersWithFailover(Tail(ss))

\* a variant that reads the validation of the first site only
AllSitesValid_FirstOnly(ss) == ss = <<>> \/ ss[1].validation.is_valid

\* all(site["validation"]["is_valid"] for site in sites)
AllSitesValid(ss) == \A i \in 1..Len(ss) : ss[i].validation.is_valid

\* lines 288-306: the aggregate summary and the returned dict, whose "sites"
\* is the list sites
MSReturn ==
    /\ ms_pc = "loop"
    /\ Len(sites) = sites_info.sites_needed
    /\ ms_result' = [total_sites |-> sites_info.sites_needed,
                     total_devices |-> sites_info.total_devices,
                     total_servers |-> SumServersWithFailover(sites),
                     max_devices_per_site |-> max_devices_per_site,
                     max_servers_per_site |-> max_servers_per_site,
                     all_sites_valid |-> AllSitesValid(sites)]
    /\ ms_pc' = "done"
    /\ UNCHANGED <<camera_groups, max_devices_per_site, max_servers_per_site, server_config,
                   sites_info, sites>>
    /\ UNCHANGED <<scVars, foVars, callVars, csVars, whVars>>

\* C24: constraint violations do not abort the distribution.  For valid
\* arguments the call does not raise; the returned deployment has a result
\* for every one of the sites_needed sites, each with the validation of its
\* own devices and servers (errors and warnings included) even when that
\* validation has errors, and all_sites_valid is the conjunction of the
\* sites' is_valid.
C24_AllSitesComputed ==
    /\ MSValidInput => ms_pc # "raised"
    /\ ms_pc = "done" =>
           /\ Len(sites) = sites_info.sites_needed
           /\ \A i \in 1..Len(sites) :
                  /\ sites[i].site_id = i
                  /\ sites[i].validation =
                         SiteValidation(sites[i].devices, sites[i].servers_with_failover,
                                        max_devices_per_site, max_servers_per_site)
                  /\ sites[i].validation.is_valid <=> sites[i].validation.errors = <<>>
           /\ ms_result.all_sites_valid <=>
                  (\A i \in 1..Len(sites) : sites[i].validation.is_valid)

\* a returned deployment of three sites of which the first two are invalid
\* and the last is valid
C24_Witness ==
    /\ ms_pc = "done"
    /\ Len(sites) = 3
    /\ ~sites[1].validation.is_valid
    /\ sites[1].validation.errors # <<>>
    /\ sites[3].validation.is_valid
    /\ ~ms_result.all_sites_valid

\* C29: calculate_multi_site_deployment leaves its inputs unchanged.  No
\* step of the call changes an element of the caller's camera_groups list
\* (every group keeps its num_cameras and its keys, and gets no
\* original_group_id key) or server_config; the groups of a site are copies.
C29_InputsUnchanged ==
    [][/\ camera_groups' = camera_groups
       /\ server_config' = server_config
       /\ \A i \in 1..Len(camera_groups') :
              "original_group_id" \notin DOMAIN camera_groups'[i]]_vars

\* a returned deployment in which a site holds a part of a group, marked
\* with original_group_id, while the caller's group has its full count and
\* its own keys only
C29_Witness ==
    /\ ms_pc = "done"
    /\ \E si \in 1..Len(sites) : \E k \in 1..Len(sites[si].camera_groups) :
           LET g == sites[si].camera_groups[k]
           IN  /\ g.num_cameras < camera_groups[g.original_group_id].num_cameras
               /\ DOMAIN camera_groups[g.original_group_id] = {"num_cameras", "bitrate_kbps"}
               /\ DOMAIN g = {"num_cameras", "bitrate_kbps", "original_group_id"}

(***************************************************************************)
(* The reported limiting_factor and the checks of the failover search      *)
(* (checked under SpecFailover).                                           *)
(***************************************************************************)
\* C25: when the failover search stops, the limiting_factor it reports names
\* a constraint that is binding: the check of the reported resource (CPU
\* camera cap, NIC bandwidth, RAM or storage throughput) fails for
\* max_cameras + 1 cameras.
C25_LimitingFactorBinding ==
    fo_pc = "done" =>
        LET a == fo_args
            next_cameras == fo_result.max_cameras + 1
            next_bitrate_mbps == fo_result.max_bitrate_mbps + a.max_camera_bitrate_mbps
            lf == fo_result.limiting_factor
        IN  /\ lf = "CPU (camera limit)" => ~check_cpu(a, next_cameras)
            /\ lf = "Network bandwidth" => ~check_nic(a, next_bitrate_mbps)
            /\ lf = "RAM" => ~check_ram(a, next_cameras)
            /\ lf = "Storage throughput" => ~check_hdd(a, next_bitrate_mbps)

(***************************************************************************)
(* servers.py: calculate_required_ram.  required_ram_gb is                 *)
(* required_ram_mb / 1024, a division by a power of two that a double      *)
(* holds exactly, so "p >= required_ram_gb" is decided on the exact        *)
(* fraction and round(required_ram_gb, 2) rounds an exact tie to even.     *)
(***************************************************************************)
ram_os_map == [arm |-> 128, atom |-> 1024, core_i3 |-> 1024, core_i5 |-> 1024]

DefaultOsRamMb == 1024

powers_of_2 == <<1, 2, 4, 8, 16, 32, 64>>

MaxRoundedRamGb == 64

\* str.lower() on the variant names drawn
Lower(cpu_variant) ==
    CASE cpu_variant = "ARM" -> "arm"
      [] cpu_variant = "Core_I5" -> "core_i5"
      [] OTHER -> cpu_variant

\* ram_os_map.get(cpu_variant.lower(), 1024)
RamOsMb(cpu_variant) ==
    IF Lower(cpu_variant) \in DOMAIN ram_os_map
    THEN ram_os_map[Lower(cpu_variant)] ELSE DefaultOsRamMb

\* a variant that takes the first power strictly above the requirement
PowerSuffices_Strict(p, required_ram_mb) == p * 1024 > required_ram_mb

\* p >= required_ram_gb
PowerSuffices(p, required_ram_mb) == p * 1024 >= required_ram_mb

\* next((p for p in powers_of_2 if p >= required_ram_gb), 64), from position i
RECURSIVE NextPower(_, _)
NextPower(i, required_ram_mb) ==
    IF i > Len(powers_of_2) THEN MaxRoundedRamGb
    ELSE IF PowerSuffices(powers_of_2[i], required_ram_mb) THEN powers_of_2[i]
    ELSE NextPower(i + 1, required_ram_mb)

calculate_required_ram(a) ==
    LET ram_os_mb == RamOsMb(a.cpu_variant)
        client == IF a.host_client THEN a.client_ram_mb ELSE 0
        required_ram_mb == ram_os_mb + client + a.num_cameras * a.camera_ram_mb
    IN  [error |-> "none",
         required_ram_mb |-> required_ram_mb,
         required_ram_gb |-> Round2(<<required_ram_mb, 1024>>),
         rounded_ram_gb |-> NextPower(1, required_ram_mb),
         breakdown |-> [os_ram_mb |-> ram_os_mb,
                        client_ram_mb |-> client,
                        camera_ram_mb |-> a.num_cameras * a.camera_ram_mb]]

MaxRamCameras == 27         \* num_cameras is drawn from 0..MaxRamCameras and larger values

RequiredRamArgs ==
    [num_cameras : 0..MaxRamCameras \cup {75, 76, 100, 358, 359, 1510, 1535, 1536, 1612, 1613, 2000},
     cpu_variant : {"arm", "ARM", "atom", "core_i3", "core_i5", "Core_I5", "xeon"},
     host_client : BOOLEAN,
     camera_ram_mb : {DefaultCameraRamMb},
     client_ram_mb : {DefaultClientRamMb}]

RRInit ==
    /\ call_pc = "calculate_required_ram"
    /\ call_args \in RequiredRamArgs
    /\ call_result = NoValue

RRCall ==
    /\ call_pc = "calculate_required_ram"
    /\ call_result' = calculate_required_ram(call_args)
    /\ call_pc' = "done"
    /\ UNCHANGED call_args
    /\ UNCHANGED <<msVars, scVars, foVars, csVars, whVars>>

RequiredRamInit == MSIdle /\ SCIdle /\ FOIdle /\ RRInit /\ CSIdle /\ WHIdle
RequiredRamNext == RRCall
SpecRequiredRam == RequiredRamInit /\ [][RequiredRamNext]_vars

\* C26: calculate_required_ram returns required_ram_mb = os_ram +
\* (3072 if host_client else 0) + 40 * num_cameras, with os_ram 128 MB for
\* arm and 1024 MB otherwise, and rounded_ram_gb is the smallest value of
\* {1, 2, 4, 8, 16, 32, 64} GB that is >= the required RAM, and 64 when more
\* than 64 GB are required.
C26_RequiredRam ==
    call_pc = "done" =>
        LET a == call_args
            r == call_result
            os_ram == IF a.cpu_variant \in {"arm", "ARM"} THEN 128 ELSE 1024
            sizes == {1, 2, 4, 8, 16, 32, 64}
            mb == os_ram + (IF a.host_client THEN 3072 ELSE 0) + 40 * a.num_cameras
        IN  /\ r.required_ram_mb = mb
            /\ r.rounded_ram_gb \in sizes
            /\ IF mb > 64 * 1024
               THEN r.rounded_ram_gb = 64
               ELSE /\ r.rounded_ram_gb * 1024 >= mb
                    /\ \A p \in sizes : p * 1024 >= mb => p >= r.rounded_ram_gb

\* a call for an unlisted variant that hosts a client and whose requirement
\* is above 64 GB: the result is capped at 64
C26_Witness ==
    /\ call_pc = "done"
    /\ call_args.cpu_variant = "xeon"
    /\ call_args.host_client
    /\ call_result.required_ram_mb > 64 * 1024
    /\ call_result.rounded_ram_gb = 64

(***************************************************************************)
(* servers.py: calculate_server_distribution.  camera_configs is not read  *)
(* by the function.                                                        *)
(***************************************************************************)
MaxDistDevices == 20

MaxDistServers == 6

UtilizationBase == 256

\* a variant that gives every server the full share
DevicesThisServer_FullShare(devices_per_server, remaining_devices) == devices_per_server

\* min(devices_per_server, remaining_devices)
DevicesThisServer(devices_per_server, remaining_devices) ==
    IF devices_per_server <= remaining_devices THEN devices_per_server ELSE remaining_devices

\* the loop "for i in range(servers_needed)" from index i with the servers
\* appended so far
RECURSIVE DistributionLoop(_, _, _, _, _)
DistributionLoop(i, servers_needed, devices_per_server, remaining_devices, servers) ==
    IF i >= servers_needed THEN servers
    ELSE LET devices_this_server == DevicesThisServer(devices_per_server, remaining_devices)
         IN  DistributionLoop(i + 1, servers_needed, devices_per_server,
                              remaining_devices - devices_this_server,
                              Append(servers,
                                     [server_id |-> i + 1,
                                      devices |-> devices_this_server,
                                      utilization_percentage |->
                                          Round2(<<devices_this_server * 100, UtilizationBase>>)]))

calculate_server_distribution(a) ==
    IF a.servers_needed = 0
    THEN [error |-> "ZeroDivisionError", servers |-> <<>>]
    ELSE [error |-> "none",
          servers |-> DistributionLoop(0, a.servers_needed,
                                       Ceil(a.total_devices, a.servers_needed),
                                       a.total_devices, <<>>)]

ServerDistributionArgs ==
    [total_devices : 0..MaxDistDevices, servers_needed : 0..MaxDistServers]

SDInit ==
    /\ call_pc = "calculate_server_distribution"
    /\ call_args \in ServerDistributionArgs
    /\ call_result = NoValue

SDCall ==
    /\ call_pc = "calculate_server_distribution"
    /\ call_result' = calculate_server_distribution(call_args)
    /\ call_pc' = IF call_result'.error = "none" THEN "done" ELSE "raised"
    /\ UNCHANGED call_args
    /\ UNCHANGED <<msVars, scVars, foVars, csVars, whVars>>

ServerDistributionInit == MSIdle /\ SCIdle /\ FOIdle /\ SDInit /\ CSIdle /\ WHIdle
ServerDistributionNext == SDCall
SpecServerDistribution == ServerDistributionInit /\ [][ServerDistributionNext]_vars

RECURSIVE SumDevices(_)
SumDevices(servers) ==
    IF servers = <<>> THEN 0 ELSE Head(servers).devices + SumDevices(Tail(servers))

\* C30: for total_devices >= 0 and servers_needed >= 1,
\* calculate_server_distribution returns exactly servers_needed entries with
\* server_id 1..servers_needed, each holding at most
\* ceil(total_devices / servers_needed) devices and never a negative number,
\* and the devices of the entries sum to total_devices.
C30_DistributionConserves ==
    (/\ call_pc \in {"done", "raised"}
     /\ call_args.total_devices >= 0
     /\ call_args.servers_needed >= 1) =>
        /\ call_pc = "done"
        /\ Len(call_result.servers) = call_args.servers_needed
        /\ \A i \in 1..Len(call_result.servers) :
              /\ call_result.servers[i].server_id = i
              /\ call_result.servers[i].devices >= 0
              /\ call_result.servers[i].devices * call_args.servers_needed
                     < call_args.total_devices + call_args.servers_needed
        /\ SumDevices(call_result.servers) = call_args.total_devices

\* a distribution over several servers in which the shares are unequal and
\* the last server receives no device
C30_Witness ==
    /\ call_pc = "done"
    /\ call_args.total_devices > 0
    /\ Len(call_result.servers) >= 3
    /\ call_result.servers[Len(call_result.servers)].devices = 0
    /\ call_result.servers[1].devices > call_result.servers[Len(call_result.servers) - 1].devices

(***************************************************************************)
(* services/webhook.py: WebhookService.  cls._webhooks is a function from  *)
(* webhook id to the subscription (NoValue: no such key), cls._deliveries  *)
(* the sequence of delivery records in insertion order, a record's id      *)
(* being its position (uuid4 ids are taken as fresh).  Times are seconds   *)
(* on the clock utcnow; None in a numeric field is NoNumber.  The request  *)
(* headers and the signature do not reach the record and are left out; the *)
(* payload of the callers in this repository is JSON data, so building it  *)
(* does not fail.  One call of deliver_webhook is one step: what           *)
(* client.post produced is the input "outcome".                            *)
(***************************************************************************)
MaxDeliveries == 3          \* records kept in cls._deliveries
MaxDirectDeliveries == 2    \* records kept when attempt numbers are drawn freely
MaxAttempt == 3             \* attempt argument; max_attempts is one less or one more
MaxRetryAttempts == 2       \* max_attempts of the deliveries that are retried
MaxTicks == 2               \* steps of the clock

TickSeconds == 60

NoNumber == -1

WebhookStatus ==
    [PENDING |-> "pending", DELIVERED |-> "delivered", FAILED |-> "failed",
     RETRYING |-> "retrying"]

WebhookEvent ==
    [CALCULATION_COMPLETED |-> "calculation.completed", PDF_FAILED |-> "pdf.failed"]

\* WebhookEvent(value): the member with that value
WebhookEventOf(value) == CHOOSE e \in DOMAIN WebhookEvent : WebhookEvent[e] = value

StatusCodes == {199, 200, 299, 300}

\* what "await client.post(...)" produced: a response, or an exception
Outcomes ==
    [kind : {"response"}, status_code : StatusCodes]
        \cup [kind : {"exception"}, status_code : {NoNumber}]

\* the outcomes drawn where deliveries are retried
CoarseOutcomes == {o \in Outcomes : o.status_code \in {200, 300, NoNumber}}

BackoffBaseSeconds == 60
BackoffFactor == 5
BackoffCapSeconds == 900

\* a variant without the cap
RetryDelay_Uncapped(attempt) == BackoffBaseSeconds * (BackoffFactor ^ (attempt - 1))

\* min(60 * (5 ** (attempt - 1)), 900)
RetryDelay(attempt) ==
    LET d == BackoffBaseSeconds * (BackoffFactor ^ (attempt - 1))
    IN  IF d <= BackoffCapSeconds THEN d ELSE BackoffCapSeconds

\* the "failed" branches of deliver_webhook (lines 181-189 and 199-206)
FailedDelivery(delivery, error_message, now) ==
    LET failed == [delivery EXCEPT !.status = WebhookStatus.FAILED,
                                   !.error_message = error_message]
    IN  IF delivery.attempt < delivery.max_attempts
        THEN [failed EXCEPT !.status = WebhookStatus.RETRYING,
                            !.next_retry_at = now + RetryDelay(delivery.attempt)]
        ELSE failed

\* deliver_webhook: the new cls._deliveries and the returned dict
deliver_webhook(webhook_id, event, attempt, max_attempts, outcome, whs, dels, now) ==
    IF whs[webhook_id] = NoValue \/ ~whs[webhook_id].active
    THEN [deliveries |-> dels,
          result |-> [success |-> FALSE, error |-> "Webhook not found or inactive"]]
    ELSE LET delivery_id == Len(dels) + 1
             delivery == [id |-> delivery_id,
                          webhook_id |-> webhook_id,
                          event |-> WebhookEvent[event],
                          status |-> WebhookStatus.PENDING,
                          attempt |-> attempt,
                          max_attempts |-> max_attempts,
                          response_code |-> NoNumber,
                          error_message |-> "",
                          created_at |-> now,
                          delivered_at |-> NoNumber,
                          next_retry_at |-> NoNumber]
         IN  IF outcome.kind = "exception"
             THEN [deliveries |-> Append(dels, FailedDelivery(delivery, "exception", now)),
                   result |-> [success |-> FALSE, delivery_id |-> delivery_id,
                               error |-> "exception"]]
             ELSE LET answered == [delivery EXCEPT !.response_code = outcome.status_code]
                  IN  IF 200 <= outcome.status_code /\ outcome.status_code < 300
                      THEN [deliveries |->
                                Append(dels, [answered EXCEPT
                                                 !.status = WebhookStatus.DELIVERED,
                                                 !.delivered_at = now]),
                            result |-> [success |-> TRUE, delivery_id |-> delivery_id,
                                        status_code |-> outcome.status_code]]
                      ELSE [deliveries |-> Append(dels, FailedDelivery(answered, "HTTP", now)),
                            result |-> [success |-> FALSE, delivery_id |-> delivery_id,
                                        status_code |-> outcome.status_code,
                                        error |-> "HTTP"]]

WHInit ==
    /\ webhooks = [wid \in WebhookIds |-> NoValue]
    /\ deliveries = <<>>
    /\ utcnow = 0
    /\ wh_call = NoValue
    /\ wh_result = NoValue
    /\ retry_pc = "idle"
    /\ retry_now = 0
    /\ retry_pos = 0
    /\ retry_size = 0
    /\ retry_results = <<>>
    /\ retry_of = <<>>

\* create_webhook: the new id is one that is not in use
WHCreate ==
    /\ \E wid \in WebhookIds, active \in BOOLEAN :
          /\ webhooks[wid] = NoValue
          /\ webhooks' = [webhooks EXCEPT ![wid] = [id |-> wid, active |-> active]]
    /\ UNCHANGED <<deliveries, utcnow, wh_call, wh_result, retry_pc, retry_now, retry_pos,
                   retry_size, retry_results, retry_of>>
    /\ UNCHANGED <<msVars, scVars, foVars, callVars, csVars>>

\* update_webhook(webhook_id, active=...)
WHUpdate ==
    /\ \E wid \in WebhookIds, active \in BOOLEAN :
          webhooks' = IF webhooks[wid] = NoValue THEN webhooks
                      ELSE [webhooks EXCEPT ![wid].active = active]
    /\ UNCHANGED <<deliveries, utcnow, wh_call, wh_result, retry_pc, retry_now, retry_pos,
                   retry_size, retry_results, retry_of>>
    /\ UNCHANGED <<msVars, scVars, foVars, callVars, csVars>>

\* delete_webhook
WHDelete ==
    /\ \E wid \in WebhookIds :
          webhooks' = [webhooks EXCEPT ![wid] = NoValue]
    /\ UNCHANGED <<deliveries, utcnow, wh_call, wh_result, retry_pc, retry_now, retry_pos,
                   retry_size, retry_results, retry_of>>
    /\ UNCHANGED <<msVars, scVars, foVars, callVars, csVars>>

\* time passes
WHTick ==
    /\ utcnow < MaxTicks * TickSeconds
    /\ utcnow' = utcnow + TickSeconds
    /\ UNCHANGED <<webhooks, deliveries, wh_call, wh_result, retry_pc, retry_now, retry_pos,
                   retry_size, retry_results, retry_of>>
    /\ UNCHANGED <<msVars, scVars, foVars, callVars, csVars>>

\* a call of deliver_webhook that is not made by retry_failed_deliveries
DirectDelivery(events, attempts, maxima, outcomes, limit) ==
    /\ Len(deliveries) < limit
    /\ \E webhook_id \in WebhookIds, event \in events, attempt \in attempts,
          max_attempts \in maxima, outcome \in outcomes :
          LET d == deliver_webhook(webhook_id, event, attempt, max_attempts, outcome,
                                   webhooks, deliveries, utcnow)
          IN  /\ deliveries' = d.deliveries
              /\ wh_result' = d.result
              /\ wh_call' = [webhook_id |-> webhook_id, attempt |-> attempt,
                             max_attempts |-> max_attempts, outcome |-> outcome,
                             now |-> utcnow, records_before |-> Len(deliveries),
                             webhook |-> webhooks[webhook_id]]
              /\ retry_of' = IF Len(d.deliveries) > Len(deliveries)
                             THEN Append(retry_of, 0) ELSE retry_of
    /\ UNCHANGED <<webhooks, utcnow, retry_pc, retry_now, retry_pos, retry_size,
                   retry_results>>
    /\ UNCHANGED <<msVars, scVars, foVars, callVars, csVars>>

\* deliver_webhook with any attempt number
WHDeliver ==
    DirectDelivery({"CALCULATION_COMPLETED"}, 1..MaxAttempt,
                   {MaxAttempt - 1, MaxAttempt + 1}, Outcomes, MaxDirectDeliveries)

\* deliver_webhook with the default attempt = 1
WHDeliverFirst ==
    DirectDelivery({"PDF_FAILED"}, {1}, 1..MaxRetryAttempts, CoarseOutcomes, MaxDeliveries)

\* retry_failed_deliveries up to the creation of the iterator of
\* "for delivery in cls._deliveries.values()"
WHRetryStart ==
    /\ retry_pc \in {"idle", "returned", "raised"}
    /\ retry_pc' = "iterating"
    /\ retry_now' = utcnow
    /\ retry_results' = <<>>
    /\ retry_pos' = 0
    /\ retry_size' = Len(deliveries)
    /\ UNCHANGED <<webhooks, deliveries, utcnow, wh_call, wh_result, retry_of>>
    /\ UNCHANGED <<msVars, scVars, foVars, callVars, csVars>>

\* the iterator finds the dictionary changed in size: RuntimeError
WHRetryRaise ==
    /\ retry_pc = "iterating"
    /\ Len(deliveries) # retry_size
    /\ retry_pc' = "raised"
    /\ UNCHANGED <<webhooks, deliveries, utcnow, wh_call, wh_result, retry_now, retry_pos,
                   retry_size, retry_results, retry_of>>
    /\ UNCHANGED <<msVars, scVars, foVars, callVars, csVars>>

\* the iterator is exhausted: return results
WHRetryReturn ==
    /\ retry_pc = "iterating"
    /\ Len(deliveries) = retry_size
    /\ retry_pos = Len(deliveries)
    /\ retry_pc' = "returned"
    /\ UNCHANGED <<webhooks, deliveries, utcnow, wh_call, wh_result, retry_now, retry_pos,
                   retry_size, retry_results, retry_of>>
    /\ UNCHANGED <<msVars, scVars, foVars, callVars, csVars>>

\* the condition of the loop body (lines 271-273)
DueForRetry(delivery, now) ==
    /\ delivery.status = WebhookStatus.RETRYING
    /\ delivery.next_retry_at # NoNumber
    /\ delivery.next_retry_at <= now

\* a loop iteration on a record that is not due
WHRetrySkip ==
    /\ retry_pc = "iterating"
    /\ Len(deliveries) = retry_size
    /\ retry_pos < Len(deliveries)
    /\ ~DueForRetry(deliveries[retry_pos + 1], retry_now)
    /\ retry_pos' = retry_pos + 1
    /\ UNCHANGED <<webhooks, deliveries, utcnow, wh_call, wh_result, retry_pc, retry_now,
                   retry_size, retry_results, retry_of>>
    /\ UNCHANGED <<msVars, scVars, foVars, callVars, csVars>>

\* a loop iteration on a record that is due: the delivery is attempted again
WHRetryDeliver ==
    /\ retry_pc = "iterating"
    /\ Len(deliveries) = retry_size
    /\ retry_pos < Len(deliveries)
    /\ Len(deliveries) < MaxDeliveries
    /\ LET delivery == deliveries[retry_pos + 1]
       IN  /\ DueForRetry(delivery, retry_now)
           /\ \E outcome \in CoarseOutcomes :
                 LET event == WebhookEventOf(delivery.event)
                     d == deliver_webhook(delivery.webhook_id, event, delivery.attempt + 1,
                                          delivery.max_attempts, outcome, webhooks,
                                          deliveries, utcnow)
                 IN  /\ deliveries' = d.deliveries
                     /\ wh_result' = d.result
                     /\ wh_call' = [webhook_id |-> delivery.webhook_id,
                                    attempt |-> delivery.attempt + 1,
                                    max_attempts |-> delivery.max_attempts,
                                    outcome |-> outcome, now |-> utcnow,
                                    records_before |-> Len(deliveries),
                                    webhook |-> webhooks[delivery.webhook_id]]
                     /\ retry_of' = IF Len(d.deliveries) > Len(deliveries)
                                    THEN Append(retry_of, delivery.id) ELSE retry_of
                     /\ retry_results' = Append(retry_results,
                                                [delivery_id |-> delivery.id,
                                                 result |-> d.result])
    /\ retry_pos' = retry_pos + 1
    /\ UNCHANGED <<webhooks, utcnow, retry_pc, retry_now, retry_size>>
    /\ UNCHANGED <<msVars, scVars, foVars, callVars, csVars>>

DeliverWebhookInit == MSIdle /\ SCIdle /\ FOIdle /\ CallIdle /\ CSIdle /\ WHInit
DeliverWebhookNext == WHCreate \/ WHUpdate \/ WHDelete \/ WHTick \/ WHDeliver
SpecDeliverWebhook == DeliverWebhookInit /\ [][DeliverWebhookNext]_vars

WebhookRetryInit == MSIdle /\ SCIdle /\ FOIdle /\ CallIdle /\ CSIdle /\ WHInit
WebhookRetryNext ==
    \/ WHCreate \/ WHUpdate \/ WHTick \/ WHDeliverFirst
    \/ WHRetryStart \/ WHRetryRaise \/ WHRetryReturn \/ WHRetrySkip \/ WHRetryDeliver
SpecWebhookRetry == WebhookRetryInit /\ [][WebhookRetryNext]_vars

RECURSIVE OriginalDelivery(_)
OriginalDelivery(i) == IF retry_of[i] = 0 THEN i ELSE OriginalDelivery(retry_of[i])

\* the records created by retrying record i
RetriesOf(i) == {j \in 1..Len(deliveries) : retry_of[j] = i}

\* the records of all attempts for the event first delivered as record i
AttemptsFor(i) == {j \in 1..Len(deliveries) : OriginalDelivery(j) = i}

\* C28: over any sequence of retry_failed_deliveries calls, an event first
\* delivered with max_attempts = N is sent at most N times in total; each
\* 'retrying' record is retried at most once and is no longer 'retrying'
\* once its retry has been attempted; and a call of retry_failed_deliveries
\* that adds delivery records completes without an error.
C28_BoundedRetries ==
    /\ retry_pc # "raised"
    /\ \A i \in 1..Len(deliveries) :
          /\ Cardinality(RetriesOf(i)) <= 1
          /\ RetriesOf(i) # {} => deliveries[i].status # "retrying"
          /\ retry_of[i] = 0 => Cardinality(AttemptsFor(i)) <= deliveries[i].max_attempts

(***************************************************************************)
(* Specifications: one per entry point, the other entry points idle.       *)
(***************************************************************************)
MultiSiteInit == MSInit /\ SCIdle /\ FOIdle /\ CallIdle /\ CSIdle /\ WHIdle
MultiSiteNext == MSSitesNeeded \/ MSSiteIteration \/ MSReturn
SpecMultiSite == MultiSiteInit /\ [][MultiSiteNext]_vars

ServerCountInit == MSIdle /\ SCInit /\ FOIdle /\ CallIdle /\ CSIdle /\ WHIdle
ServerCountNext == SCCall
SpecServerCount == ServerCountInit /\ [][ServerCountNext]_vars

FailoverInit == MSIdle /\ SCIdle /\ FOInit /\ CallIdle /\ CSIdle /\ WHIdle
FailoverNext == FOAdmit \/ FOBreak \/ FOReturn
SpecFailover == FailoverInit /\ [][FailoverNext]_vars
\* the loop is sequential code: a step that can be taken is taken
SpecFailoverFair == SpecFailover /\ WF_vars(FailoverNext)

Init ==
    \/ MultiSiteInit \/ ServerCountInit \/ FailoverInit \/ ApplyFailoverInit
    \/ ValidateNicInit \/ LicensesInit \/ StorageInit \/ RaidInit \/ BitrateInit
    \/ CalcSystemInit \/ RecommendTierInit \/ ValidateSiteInit \/ RequiredRamInit
    \/ ServerDistributionInit \/ DeliverWebhookInit \/ WebhookRetryInit
Next ==
    \/ MultiSiteNext \/ ServerCountNext \/ FailoverNext \/ ApplyFailoverNext
    \/ ValidateNicNext \/ LicensesNext \/ StorageNext \/ RaidNext \/ BitrateNext
    \/ CalcSystemNext \/ RecommendTierNext \/ ValidateSiteNext \/ RequiredRamNext
    \/ ServerDistributionNext \/ DeliverWebhookNext \/ WebhookRetryNext
Spec == Init /\ [][Next]_vars

====
